---- MODULE Spec2Model ----
(***************************************************************************)
(* Model of the GenericScanner scheduler core (TaskManager, Dispatcher)    *)
(* and of the scanner node's CoroutinePool.                                *)
(*                                                                         *)
(*   Spec      task records under TaskManager and Dispatcher operations    *)
(*   PoolSpec  one CoroutinePool under submit / resize / stop and the      *)
(*             life of the asyncio tasks it launches                       *)
(*   DispatchSpec  schedule_pending_tasks and dispatch_task, one await at  *)
(*             a time, with the messages they publish                      *)
(*   ExpanderSpec  _count_targets and split_targets as functions           *)
(*   AuthSpec  the AuthManager under get_session / invalidate_session /    *)
(*             close_all and the use of the Sessions it returns            *)
(***************************************************************************)
EXTENDS Integers, Sequences, FiniteSets, TLC

(* ---- bounds of the model ---------------------------------------------- *)
MaxTasks == 1
MaxRows == 2
MaxProgress == 2
MaxPool == 2
MaxSubmits == 3
MaxResizes == 1
MaxCalls == 2
MaxTargets == 2
MaxChunkSize == 3
MaxBacklog == 21
MaxFailures == 1
MaxScans == 2
MaxRateLimit == 1
MaxIdentify == 3
MaxTransactions == 2

(* ---- program constants ------------------------------------------------ *)
DefaultPageSize == 20
DefaultMaxSize == 100
DefaultChunkSize == 256
DEFAULT_PRIORITY == 5
DefaultRateLimit == 100

VARIABLES tasks, call,
          max_size, gen, semv, hsem, active_count, stopped, hstate, finalized,
          stop_pc, stop_wait,
          _sessions, _credentials, _client, gs,
          expander_args, expander_ret,
          task_queue, dispatcher,
          consumer,
          node,
          _cases, _default_rate_limit, scans, stat_records, matching,
          fingerprint_engine,
          db

taskVars == <<tasks>>
poolVars == <<max_size, gen, semv, hsem, active_count, stopped, hstate, finalized,
              stop_pc, stop_wait>>
authVars == <<_sessions, _credentials, _client, gs>>
expanderVars == <<expander_args, expander_ret>>
dispatchVars == <<task_queue, dispatcher>>
consumerVars == <<consumer>>
nodeVars == <<node>>
detectorVars == <<_cases, _default_rate_limit, scans, stat_records, matching>>
engineVars == <<fingerprint_engine>>
dbVars == <<db>>
vars == <<tasks, call, max_size, gen, semv, hsem, active_count, stopped,
          hstate, finalized, stop_pc, stop_wait, _sessions, _credentials, _client, gs,
          expander_args, expander_ret, task_queue, dispatcher, consumer,
          node, _cases, _default_rate_limit, scans, stat_records, matching,
          fingerprint_engine, db>>

(* what the operations of one component leave alone *)
elsewhere == <<consumerVars, nodeVars, detectorVars, engineVars, dbVars>>
notTask == <<poolVars, authVars, expanderVars, dispatchVars, elsewhere>>
notPool == <<taskVars, authVars, expanderVars, dispatchVars, elsewhere>>
notAuth == <<taskVars, poolVars, expanderVars, dispatchVars, elsewhere>>
notExpander == <<taskVars, poolVars, authVars, dispatchVars, call, elsewhere>>
notDispatch == <<poolVars, authVars, expanderVars, call, elsewhere>>
notCall == <<taskVars, poolVars, authVars, expanderVars, dispatchVars, elsewhere>>
notConsumer == <<poolVars, authVars, expanderVars, dispatchVars, nodeVars, detectorVars,
                 engineVars, dbVars>>
notNode == <<taskVars, authVars, expanderVars, dispatchVars, consumerVars, detectorVars,
             engineVars, dbVars>>
notDetector == <<taskVars, poolVars, authVars, expanderVars, dispatchVars, consumerVars,
                 nodeVars, engineVars, dbVars, call>>
notEngine == <<taskVars, poolVars, authVars, expanderVars, dispatchVars, consumerVars,
               nodeVars, detectorVars, dbVars, call>>
notDb == <<poolVars, authVars, expanderVars, dispatchVars, consumerVars, nodeVars,
           detectorVars, engineVars, call>>

(* ---- task records ------------------------------------------------------ *)
(* the rows the tasks table can hold, numbered in the order of their      *)
(* creation                                                                *)
TaskIds == 1..MaxRows
(* the identifiers the operations are called with *)
AllIds == 1..(MaxTasks + 1)

PENDING == "pending"
RUNNING == "running"
PAUSED == "paused"
COMPLETED == "completed"
FAILED == "failed"
TaskStatus == {PENDING, RUNNING, PAUSED, COMPLETED, FAILED}

None == "None"
CancelMessage == "Task cancelled by user"
UnknownError == "Unknown error"
(* the text of an error raised by a node or by a publish *)
ErrorText == "error"
ErrorTexts == {UnknownError, ErrorText}

NoTask == [status |-> "absent", targets |-> <<>>, priority |-> 0, progress_total |-> 0,
           progress_completed |-> 0, error_message |-> None]

(* call: the TaskManager call whose boolean result its caller is about to  *)
(* receive; NoCall when no such result is outstanding                      *)
NoCall == [op |-> "none", id |-> 0, ret |-> None]
Idle == call = NoCall

(* select(Task).where(Task.id == task_id) ... scalar_one_or_none() *)
Found(t) == t \in TaskIds /\ tasks[t].status # "absent"

(* ---- target specifiers ------------------------------------------------- *)
(* a specifier is text; what the code looks at is whether it contains "/"  *)
(* and, if so, whether ipaddress.ip_network accepts it and with which      *)
(* prefix length                                                           *)
Prefixes == {30, 31, 32}
TargetSpecs == {[slash |-> FALSE, valid |-> FALSE, prefix |-> 32],
                [slash |-> TRUE, valid |-> FALSE, prefix |-> 32]}
               \cup {[slash |-> TRUE, valid |-> TRUE, prefix |-> p] : p \in Prefixes}

RECURSIVE Pow2(_)
Pow2(n) == IF n = 0 THEN 1 ELSE 2 * Pow2(n - 1)

(* ipaddress.IPv4Network.num_addresses *)
NumAddresses(target) == Pow2(32 - target.prefix)

RECURSIVE _count_targets(_)
_count_targets(targets) ==
    IF targets = <<>> THEN 0
    ELSE LET target == Head(targets)
             n == IF target.slash /\ target.valid THEN NumAddresses(target) ELSE 1
         IN n + _count_targets(Tail(targets))

(* the target list the tasks of Spec are created with: one host name *)
TargetLists == {<<[slash |-> FALSE, valid |-> FALSE, prefix |-> 32]>>}

(* ---- target expansion and chunking ------------------------------------ *)
(* an address of the expansion: <<specifier, k>> is the k-th address of    *)
(* the block the specifier names, <<specifier, -1>> the specifier itself   *)
Min(a, b) == IF a < b THEN a ELSE b

(* ipaddress.IPv4Network.hosts(): every address of a /31 or /32 block,     *)
(* otherwise all but the network and the broadcast address                 *)
hosts(target) ==
    LET n == NumAddresses(target)
        first == IF target.prefix >= 31 THEN 0 ELSE 1
        last == IF target.prefix >= 31 THEN n - 1 ELSE n - 2
    IN [k \in 1..(last - first + 1) |-> <<target, first + k - 1>>]

(* all_targets of split_targets *)
RECURSIVE all_targets(_)
all_targets(targets) ==
    IF targets = <<>> THEN <<>>
    ELSE LET target == Head(targets)
         IN (IF target.slash /\ target.valid THEN hosts(target) ELSE <<<<target, -1>>>>)
            \o all_targets(Tail(targets))

(* a slice that loses its last element *)
SliceShort(list, i, j) == SubSeq(list, i + 1, Min(j, Len(list)) - 1)

(* list[i : j] for 0 <= i <= j *)
Slice(list, i, j) == SubSeq(list, i + 1, Min(j, Len(list)))

(* the chunks of split_targets: one for every i of                         *)
(* range(0, len(all_targets), chunk_size)                                  *)
split_targets(targets, chunk_size) ==
    LET all == all_targets(targets)
        n == (Len(all) + chunk_size - 1) \div chunk_size
    IN [j \in 1..n |-> Slice(all, (j - 1) * chunk_size, (j - 1) * chunk_size + chunk_size)]

(* the calls of _count_targets and split_targets on one target list:      *)
(* expander_args holds the arguments, expander_ret what has been returned *)
(* (<<>>: not called yet)                                                  *)
RECURSIVE ListsUpTo(_)
ListsUpTo(n) ==
    IF n = 0 THEN {<<>>}
    ELSE ListsUpTo(n - 1)
         \cup {Append(l, s) : l \in {m \in ListsUpTo(n - 1) : Len(m) = n - 1}, s \in TargetSpecs}

NoExpanderCall == [count |-> <<>>, chunks |-> <<>>]

call_count_targets ==
    /\ expander_ret.count = <<>>
    /\ expander_ret' = [expander_ret EXCEPT !.count = <<_count_targets(expander_args.targets)>>]
    /\ UNCHANGED <<expander_args, notExpander>>

call_split_targets ==
    /\ expander_ret.chunks = <<>>
    /\ expander_ret' = [expander_ret EXCEPT
                           !.chunks = <<split_targets(expander_args.targets,
                                                      expander_args.chunk_size)>>]
    /\ UNCHANGED <<expander_args, notExpander>>

(* no call of the expander *)
NoExpander ==
    /\ expander_args = [targets |-> <<>>, chunk_size |-> DefaultChunkSize]
    /\ expander_ret = NoExpanderCall

ExpanderNext ==
    \/ call_count_targets
    \/ call_split_targets

(* ---- TaskManager ------------------------------------------------------- *)
(* uuid4 primary key: a fresh identifier *)
FreshId == CHOOSE t \in TaskIds : tasks[t].status = "absent"
                                  /\ \A u \in TaskIds : u < t => tasks[u].status # "absent"

create_task(targets, priority) ==
    /\ Idle
    /\ \E t \in TaskIds : tasks[t].status = "absent"
    /\ tasks' = [tasks EXCEPT ![FreshId] =
                    [status |-> PENDING,
                     targets |-> targets,
                     priority |-> priority,
                     progress_total |-> _count_targets(targets),
                     progress_completed |-> 0,
                     error_message |-> None]]
    /\ call' = NoCall
    /\ UNCHANGED notTask

(* create_task with the default priority, for at most MaxTasks tasks *)
create_default_task(targets) ==
    /\ Cardinality({t \in TaskIds : Found(t)}) < MaxTasks
    /\ create_task(targets, DEFAULT_PRIORITY)

(* pause_task guarded like cancel_task: any task that is not terminal *)
PauseAllowedIfLive(t) == Found(t) /\ tasks[t].status \notin {COMPLETED, FAILED}

(* not (not task or task.status != RUNNING) *)
PauseAllowed(t) == Found(t) /\ tasks[t].status = RUNNING

pause_task(t) ==
    /\ Idle
    /\ IF ~PauseAllowed(t)
       THEN /\ call' = [op |-> "pause_task", id |-> t, ret |-> "False"]
            /\ UNCHANGED tasks
       ELSE /\ tasks' = [tasks EXCEPT ![t].status = PAUSED]
            /\ call' = [op |-> "pause_task", id |-> t, ret |-> "True"]
    /\ UNCHANGED notTask

(* not (not task or task.status != PAUSED) *)
ResumeAllowed(t) == Found(t) /\ tasks[t].status = PAUSED

resume_task(t) ==
    /\ Idle
    /\ IF ~ResumeAllowed(t)
       THEN /\ call' = [op |-> "resume_task", id |-> t, ret |-> "False"]
            /\ UNCHANGED tasks
       ELSE /\ tasks' = [tasks EXCEPT ![t].status = RUNNING]
            /\ call' = [op |-> "resume_task", id |-> t, ret |-> "True"]
    /\ UNCHANGED notTask

(* task and task.status not in [COMPLETED, FAILED] *)
CancelAllowed(t) == Found(t) /\ tasks[t].status \notin {COMPLETED, FAILED}

cancel_task(t) ==
    /\ Idle
    /\ IF ~CancelAllowed(t)
       THEN /\ call' = [op |-> "cancel_task", id |-> t, ret |-> "False"]
            /\ UNCHANGED tasks
       ELSE /\ tasks' = [tasks EXCEPT ![t].status = FAILED,
                                      ![t].error_message = CancelMessage]
            /\ call' = [op |-> "cancel_task", id |-> t, ret |-> "True"]
    /\ UNCHANGED notTask

(* return True / return False: the caller receives the result *)
Return ==
    /\ ~Idle
    /\ call' = NoCall
    /\ UNCHANGED notCall

(* the task store after update_progress(task_id, completed, total);       *)
(* total is <<>> for None and <<n>> for a given value                      *)
UpdateProgress(store, t, completed, total) ==
    IF t \in DOMAIN store /\ store[t].status # "absent"
    THEN [store EXCEPT ![t].progress_completed = completed,
                       ![t].progress_total = IF total # <<>> THEN total[1] ELSE @]
    ELSE store

(* the task store after mark_running(task_id) *)
MarkRunning(store, t) ==
    IF t \in DOMAIN store /\ store[t].status # "absent"
    THEN [store EXCEPT ![t].status = RUNNING]
    ELSE store

(* the task store after mark_completed(task_id) *)
MarkCompleted(store, t) ==
    IF t \in DOMAIN store /\ store[t].status # "absent"
    THEN [store EXCEPT ![t].status = COMPLETED,
                       ![t].progress_completed = store[t].progress_total]
    ELSE store

(* the task store after mark_failed(task_id, error) *)
MarkFailed(store, t, error) ==
    IF t \in DOMAIN store /\ store[t].status # "absent"
    THEN [store EXCEPT ![t].status = FAILED, ![t].error_message = error]
    ELSE store

update_progress(t, completed, total) ==
    /\ Idle
    /\ tasks' = UpdateProgress(tasks, t, completed, total)
    /\ call' = NoCall
    /\ UNCHANGED notTask

mark_running(t) ==
    /\ Idle
    /\ tasks' = MarkRunning(tasks, t)
    /\ call' = NoCall
    /\ UNCHANGED notTask

mark_completed(t) ==
    /\ Idle
    /\ tasks' = MarkCompleted(tasks, t)
    /\ call' = NoCall
    /\ UNCHANGED notTask

mark_failed(t, error) ==
    /\ Idle
    /\ tasks' = MarkFailed(tasks, t, error)
    /\ call' = NoCall
    /\ UNCHANGED notTask

(* ---- Dispatcher -------------------------------------------------------- *)
(* a result message: json body with task_id, status and the optional       *)
(* fields completed and error (None: the key is missing)                   *)
Optional(S) == {<<>>} \cup {<<x>> : x \in S}
Messages ==
    [task_id : AllIds, status : {"progress"}, completed : Optional(0..MaxProgress), error : {<<>>}]
    \cup [task_id : AllIds, status : {"completed", "other"}, completed : {<<>>}, error : {<<>>}]
    \cup [task_id : AllIds, status : {"failed"}, completed : {<<>>}, error : Optional({ErrorText})]

(* result.get(key, default) *)
Get(value, default) == IF value = <<>> THEN default ELSE value[1]

(* the try block of _handle_result: the table after the result m is      *)
(* applied                                                                *)
ApplyResult(store, m) ==
    LET task_id == m.task_id
        status == m.status
        completed == Get(m.completed, 0)
    IN CASE status = "progress" -> UpdateProgress(store, task_id, completed, <<>>)
         [] status = "completed" -> MarkCompleted(store, task_id)
         [] status = "failed" -> MarkFailed(store, task_id, Get(m.error, UnknownError))
         [] OTHER -> store

_handle_result(m) ==
    /\ Idle
    /\ tasks' = ApplyResult(tasks, m)
    /\ call' = NoCall
    /\ UNCHANGED notTask

(* dispatch_task(task_id, targets): publish every chunk, then mark_running; *)
(* published = FALSE: connect or a publish raised, the error propagates     *)
dispatch_task(t, published) ==
    /\ Idle
    /\ tasks' = IF published THEN MarkRunning(tasks, t) ELSE tasks
    /\ call' = NoCall
    /\ UNCHANGED notTask

(* list_tasks(status="pending"): first page, newest first *)
PendingPage ==
    LET pending == {t \in TaskIds : tasks[t].status = PENDING}
    IN {t \in pending : Cardinality({u \in pending : u > t}) < DefaultPageSize}

(* schedule_pending_tasks: failing is the set of listed tasks whose dispatch raises *)
schedule_pending_tasks(failing) ==
    /\ Idle
    /\ failing \subseteq PendingPage
    /\ tasks' = [t \in TaskIds |->
                    IF t \in PendingPage
                    THEN IF t \in failing
                         THEN MarkFailed(tasks, t, ErrorText)[t]
                         ELSE MarkRunning(tasks, t)[t]
                    ELSE tasks[t]]
    /\ call' = NoCall
    /\ UNCHANGED notTask

(* ---- Dispatcher, step by step ----------------------------------------- *)
(* task_queue is the sequence of the messages published with routing key   *)
(* "task".  dispatcher is where schedule_pending_tasks stands: running     *)
(* tells whether it has been called and has not returned, todo is the rest *)
(* of the listed tasks, task_id the task whose dispatch_task call is in    *)
(* progress (0: none), chunks its chunks and i the index of the next chunk *)
(* to publish.                                                             *)
Priorities == {DEFAULT_PRIORITY, 10}

(* the target lists of the tasks to schedule: a host name (one chunk) and  *)
(* a /23 block (510 hosts, two chunks)                                     *)
ScheduledTargetLists == {<<[slash |-> FALSE, valid |-> FALSE, prefix |-> 32]>>,
                         <<[slash |-> TRUE, valid |-> TRUE, prefix |-> 23]>>}

(* rows are numbered in the order of their creation *)
created_at(t) == t

(* list_tasks(status="pending"): the pending tasks ordered by created_at   *)
(* descending, first page                                                  *)
RECURSIVE NewestFirst(_)
NewestFirst(S) ==
    IF S = {} THEN <<>>
    ELSE LET t == CHOOSE x \in S : \A y \in S : created_at(y) <= created_at(x)
         IN <<t>> \o NewestFirst(S \ {t})

list_tasks_pending ==
    LET all == NewestFirst({t \in DOMAIN tasks : tasks[t].status = PENDING})
    IN SubSeq(all, 1, Min(DefaultPageSize, Len(all)))

IdleDispatcher == [running |-> FALSE, todo |-> <<>>, task_id |-> 0, chunks |-> <<>>, i |-> 0]

(* enumerate(chunks) starting at 1 *)
ChunkIdFromOne(i) == i + 1

(* enumerate(chunks): the index of the chunk *)
ChunkId(i) == i

(* schedule_pending_tasks is called: tasks, _ = await list_tasks(...) *)
schedule_list ==
    /\ Idle
    /\ ~dispatcher.running
    /\ dispatcher' = [IdleDispatcher EXCEPT !.running = TRUE, !.todo = list_tasks_pending]
    /\ UNCHANGED <<tasks, task_queue, notDispatch>>

(* for task in tasks: dispatch_task(task.id, task.targets) begins and      *)
(* splits the targets                                                      *)
dispatch_begin ==
    /\ Idle
    /\ dispatcher.running /\ dispatcher.task_id = 0 /\ dispatcher.todo # <<>>
    /\ LET t == Head(dispatcher.todo)
       IN dispatcher' = [dispatcher EXCEPT !.todo = Tail(@),
                                           !.task_id = t,
                                           !.chunks = split_targets(tasks[t].targets,
                                                                    DefaultChunkSize),
                                           !.i = 0]
    /\ UNCHANGED <<tasks, task_queue, notDispatch>>

(* await self._exchange.publish(...) of the next chunk; when connect or    *)
(* the publish raises (ok = FALSE), schedule_pending_tasks marks the task  *)
(* failed and goes on with the next one                                    *)
publish(ok) ==
    /\ Idle
    /\ dispatcher.task_id # 0
    /\ dispatcher.i < Len(dispatcher.chunks)
    /\ IF ok
       THEN /\ task_queue' = Append(task_queue,
                                    [task_id |-> dispatcher.task_id,
                                     chunk_id |-> ChunkId(dispatcher.i),
                                     targets |-> dispatcher.chunks[dispatcher.i + 1],
                                     total_chunks |-> Len(dispatcher.chunks)])
            /\ dispatcher' = [dispatcher EXCEPT !.i = @ + 1]
            /\ UNCHANGED tasks
       ELSE /\ tasks' = MarkFailed(tasks, dispatcher.task_id, ErrorText)
            /\ dispatcher' = [dispatcher EXCEPT !.task_id = 0, !.chunks = <<>>, !.i = 0]
            /\ UNCHANGED task_queue
    /\ UNCHANGED notDispatch

(* every chunk is published: await task_manager.mark_running(task_id) *)
dispatch_end ==
    /\ Idle
    /\ dispatcher.task_id # 0
    /\ dispatcher.i = Len(dispatcher.chunks)
    /\ tasks' = MarkRunning(tasks, dispatcher.task_id)
    /\ dispatcher' = [dispatcher EXCEPT !.task_id = 0, !.chunks = <<>>, !.i = 0]
    /\ UNCHANGED <<task_queue, notDispatch>>

(* the loop is over: schedule_pending_tasks returns *)
schedule_return ==
    /\ Idle
    /\ dispatcher.running /\ dispatcher.task_id = 0 /\ dispatcher.todo = <<>>
    /\ dispatcher' = IdleDispatcher
    /\ UNCHANGED <<tasks, task_queue, notDispatch>>

(* Dispatcher() with nothing published *)
NewDispatcher ==
    /\ task_queue = <<>>
    /\ dispatcher = IdleDispatcher

(* publish with at most MaxFailures dispatches failing *)
backlog_publish(ok) ==
    /\ ok \/ Cardinality({t \in DOMAIN tasks : tasks[t].status = FAILED}) < MaxFailures
    /\ publish(ok)

(* a tasks table holding k pending tasks, created one after the other with *)
(* a host name as their target and the default priority                    *)
Backlog(k) ==
    [t \in 1..k |-> [status |-> PENDING,
                     targets |-> <<[slash |-> FALSE, valid |-> FALSE, prefix |-> 32]>>,
                     priority |-> DEFAULT_PRIORITY,
                     progress_total |-> 1,
                     progress_completed |-> 0,
                     error_message |-> None]]

BacklogNext ==
    \/ schedule_list
    \/ dispatch_begin
    \/ \E ok \in BOOLEAN : backlog_publish(ok)
    \/ dispatch_end
    \/ schedule_return

(* ---- Dispatcher.start_result_consumer --------------------------------- *)
(* consumer.pc is where the consumer loop stands:                          *)
(*   iterating   in `async for message in queue_iter`, awaiting a message  *)
(*   in try      inside message.process(), in the try block of             *)
(*               _handle_result                                            *)
(*   after try   the try block is over: the result is applied              *)
(*   in except   the try block raised: the except block has logged it      *)
(* consumer.message is the last message delivered and consumer.delivery    *)
(* what the broker knows of it: none, unacked or acked.                    *)
IdleConsumer == [pc |-> "iterating", message |-> <<>>, delivery |-> "none"]

(* the iterator yields the next message of the result queue and            *)
(* message.process() is entered                                            *)
consume_message(m) ==
    /\ consumer.pc = "iterating"
    /\ consumer' = [pc |-> "in try", message |-> <<m>>, delivery |-> "unacked"]
    /\ UNCHANGED <<tasks, call, notConsumer>>

(* the try block of _handle_result; written = FALSE: the session of the    *)
(* task manager raises, nothing is committed and the except block logs it  *)
handle_result_try(written) ==
    /\ Idle
    /\ consumer.pc = "in try"
    /\ IF written
       THEN /\ tasks' = ApplyResult(tasks, consumer.message[1])
            /\ consumer' = [consumer EXCEPT !.pc = "after try"]
       ELSE /\ consumer' = [consumer EXCEPT !.pc = "in except"]
            /\ UNCHANGED tasks
    /\ UNCHANGED <<call, notConsumer>>

(* _handle_result returns and message.process() exits without an           *)
(* exception: the message is acked                                         *)
process_exit ==
    /\ consumer.pc \in {"after try", "in except"}
    /\ consumer' = [consumer EXCEPT !.pc = "iterating", !.delivery = "acked"]
    /\ UNCHANGED <<tasks, call, notConsumer>>

(* Dispatcher() before start_result_consumer has a message *)
NewConsumer == consumer = IdleConsumer

ConsumerNext ==
    \/ \E targets \in TargetLists : create_default_task(targets)
    \/ \E m \in Messages : consume_message(m)
    \/ \E written \in BOOLEAN : handle_result_try(written)
    \/ process_exit

DispatchNext ==
    \/ \E targets \in ScheduledTargetLists, priority \in Priorities :
          create_task(targets, priority)
    \/ schedule_list
    \/ dispatch_begin
    \/ \E ok \in BOOLEAN : publish(ok)
    \/ dispatch_end
    \/ schedule_return

(* the messages dispatch_task(t, targets) publishes when no publish raises *)
dispatch_messages(t) ==
    LET chunks == split_targets(tasks[t].targets, DefaultChunkSize)
    IN [k \in 1..Len(chunks) |-> [task_id |-> t,
                                  chunk_id |-> ChunkId(k - 1),
                                  targets |-> chunks[k],
                                  total_chunks |-> Len(chunks)]]

(* the messages of `for task in tasks: dispatch_task(task.id, task.targets)` *)
RECURSIVE dispatch_all(_)
dispatch_all(todo) ==
    IF todo = <<>> THEN <<>>
    ELSE dispatch_messages(Head(todo)) \o dispatch_all(Tail(todo))

(* the task store after mark_running of every task of the list *)
RECURSIVE mark_all_running(_, _)
mark_all_running(store, todo) ==
    IF todo = <<>> THEN store
    ELSE mark_all_running(MarkRunning(store, Head(todo)), Tail(todo))

(* a second schedule_pending_tasks() call made while the first one is      *)
(* suspended at one of its awaits, and running to its end, every publish   *)
(* succeeding, before the first one is resumed                             *)
schedule_concurrently ==
    /\ Idle
    /\ dispatcher.running
    /\ task_queue' = task_queue \o dispatch_all(list_tasks_pending)
    /\ tasks' = mark_all_running(tasks, list_tasks_pending)
    /\ UNCHANGED <<dispatcher, notDispatch>>

ConcurrentDispatchNext ==
    \/ \E targets \in ScheduledTargetLists, priority \in Priorities :
          create_task(targets, priority)
    \/ schedule_list
    \/ dispatch_begin
    \/ \E ok \in BOOLEAN : publish(ok)
    \/ dispatch_end
    \/ schedule_return
    \/ schedule_concurrently

(* ---- the status operations, one database transaction each ------------- *)
(* db lists the get_db_context() blocks that are open, in the order they   *)
(* were entered: the operation and its task_id, where it stands (entered:  *)
(* before its select has answered; selected: holding the row it read) and  *)
(* the row its select gave.                                                *)
StatusOps == {"pause_task", "resume_task", "cancel_task",
              "mark_running", "mark_completed", "mark_failed"}

(* the task store after the operation ran on it in one piece *)
Applied(op, store, t) ==
    CASE op = "pause_task" ->
            IF store[t].status = RUNNING THEN [store EXCEPT ![t].status = PAUSED]
            ELSE store
      [] op = "resume_task" ->
            IF store[t].status = PAUSED THEN [store EXCEPT ![t].status = RUNNING]
            ELSE store
      [] op = "cancel_task" ->
            IF store[t].status \in {PENDING, RUNNING, PAUSED}
            THEN [store EXCEPT ![t].status = FAILED, ![t].error_message = CancelMessage]
            ELSE store
      [] op = "mark_running" -> MarkRunning(store, t)
      [] op = "mark_completed" -> MarkCompleted(store, t)
      [] op = "mark_failed" -> MarkFailed(store, t, ErrorText)

(* the select is made in a block that is left before the row is written *)
InContextUntilSelected(txn) == txn.pc = "entered"

(* the statements of an operation from its select to its flush are inside  *)
(* one `async with get_db_context() as db` block                           *)
InContext(txn) == txn.pc \in {"entered", "selected"}

(* per-row semantics of the persistence layer: a transaction that has read *)
(* a row to write it holds the row until the transaction is over           *)
RowHeld(t) ==
    \E k \in 1..Len(db) : db[k].task_id = t /\ db[k].pc = "selected" /\ InContext(db[k])

(* async with get_db_context() as db: an operation called with the id of   *)
(* a task enters its block                                                 *)
db_enter(op, t) ==
    /\ Len(db) < MaxTransactions
    /\ Found(t)
    /\ db' = Append(db, [op |-> op, task_id |-> t, pc |-> "entered", seen |-> NoTask])
    /\ UNCHANGED <<tasks, notDb>>

(* result = await db.execute(select(Task).where(Task.id == task_id)) *)
db_select(k) ==
    /\ k \in 1..Len(db)
    /\ db[k].pc = "entered"
    /\ ~RowHeld(db[k].task_id)
    /\ db' = [db EXCEPT ![k].pc = "selected", ![k].seen = tasks[db[k].task_id]]
    /\ UNCHANGED <<tasks, notDb>>

(* the rest of the block: the test of the row read, the assignments to it, *)
(* await db.flush(), which updates the columns that were assigned a new    *)
(* value, the commit on leaving the block and the return                   *)
db_flush(k) ==
    /\ k \in 1..Len(db)
    /\ db[k].pc = "selected"
    /\ LET t == db[k].task_id
           seen == db[k].seen
           task == Applied(db[k].op, [tasks EXCEPT ![t] = seen], t)[t]
       IN tasks' = [tasks EXCEPT
                       ![t].status = IF task.status # seen.status THEN task.status ELSE @,
                       ![t].error_message = IF task.error_message # seen.error_message
                                            THEN task.error_message ELSE @,
                       ![t].progress_completed =
                           IF task.progress_completed # seen.progress_completed
                           THEN task.progress_completed ELSE @]
    /\ db' = [j \in 1..(Len(db) - 1) |-> IF j < k THEN db[j] ELSE db[j + 1]]
    /\ UNCHANGED notDb

(* no transaction is open *)
NoTransaction == db = <<>>

(* the task the operations are called on is created *)
create_one_task(targets) ==
    /\ \A t \in TaskIds : ~Found(t)
    /\ create_task(targets, DEFAULT_PRIORITY)

TransactionNext ==
    \/ \E targets \in ScheduledTargetLists : create_one_task(targets)
    \/ \E op \in StatusOps, t \in TaskIds : db_enter(op, t)
    \/ \E k \in 1..MaxTransactions : db_select(k)
    \/ \E k \in 1..MaxTransactions : db_flush(k)

(* ---- CoroutinePool ---------------------------------------------------- *)
(* Every submit call of a run has its own handle h.  hstate[h] is where    *)
(* that call, and then the asyncio task it creates, stands:                *)
(*   unused     the call has not been made                                 *)
(*   waiting    suspended in acquire(), its future pending                 *)
(*   granted    a release has set its future; the call has not resumed     *)
(*   created    asyncio.create_task(wrapped()) done, wrapped() not begun   *)
(*   running    wrapped() is inside its try block, awaiting func           *)
(*   returned, raised, cancelled   the task is done                        *)
(* Each resize makes a new semaphore: gen counts them, semv[g] is the      *)
(* value of the g-th one, self._semaphore is the gen-th, and hsem[h] is    *)
(* the one the suspended call h waits on.  finalized is the set of tasks   *)
(* whose finally block has run; stop_wait is the set of tasks stop is      *)
(* gathering that are not done yet.  stop_pc is where stop stands: idle    *)
(* (not called), gather (inside wait_for), done (returned from the try     *)
(* block) or done after cancel (returned from the except block).           *)
Handles == 1..MaxSubmits
Gens == 0..MaxResizes
Done == {"returned", "raised", "cancelled"}

(* self._tasks: tasks are discarded by their done callback *)
_tasks == {h \in Handles : hstate[h] \in {"created", "running"}}

(* Semaphore._waiters of the g-th semaphore, in arrival order (handles are *)
(* numbered in the order of the calls), and its futures not yet set        *)
Waiters(g) == {h \in Handles : hstate[h] \in {"waiting", "granted"} /\ hsem[h] = g}
Pending(g) == {h \in Waiters(g) : hstate[h] = "waiting"}

(* the first k pending waiters of the g-th semaphore *)
Woken(g, k) == {h \in Pending(g) : Cardinality({u \in Pending(g) : u < h}) < k}

(* acquire() that never suspends *)
lockedNever(g) == FALSE

(* Semaphore.locked(): acquire() would suspend *)
locked(g) == semv[g] = 0 \/ Waiters(g) # {}

(* the finally block of wrapped() run by the tasks of ended, and the states *)
(* `after` these tasks end in: active_count -= 1 and                        *)
(* self._semaphore.release() each, a release waking the first pending       *)
(* waiter if there is one                                                   *)
Finalize(ended, after) ==
    LET k == Cardinality(ended)
        woken == Woken(gen, k)
    IN /\ active_count' = active_count - k
       /\ semv' = [semv EXCEPT ![gen] = @ + k - Cardinality(woken)]
       /\ finalized' = finalized \cup ended
       /\ hstate' = [h \in Handles |->
                        IF h \in DOMAIN after THEN after[h]
                        ELSE IF h \in woken THEN "granted"
                        ELSE hstate[h]]
       /\ stop_wait' = stop_wait \ DOMAIN after
       /\ UNCHANGED hsem

(* submit without the _stopped test *)
IsStoppedNever == FALSE

(* if self._stopped *)
IsStopped == stopped

(* submit(func): raise when stopped, else acquire a slot (suspending when  *)
(* the semaphore is locked), count the task and create it                  *)
Submit ==
    /\ Idle
    /\ IF IsStopped
       THEN /\ call' = [op |-> "submit", id |-> 0, ret |-> "PoolStopped"]
            /\ UNCHANGED poolVars
       ELSE \E h \in Handles :
            /\ hstate[h] = "unused"
            /\ \A u \in Handles : u < h => hstate[u] # "unused"
            /\ IF ~locked(gen)
               THEN /\ semv' = [semv EXCEPT ![gen] = @ - 1]
                    /\ active_count' = active_count + 1
                    /\ hstate' = [hstate EXCEPT ![h] = "created"]
                    /\ call' = [op |-> "submit", id |-> h, ret |-> "task"]
                    /\ UNCHANGED hsem
               ELSE /\ hstate' = [hstate EXCEPT ![h] = "waiting"]
                    /\ hsem' = [hsem EXCEPT ![h] = gen]
                    /\ call' = [op |-> "submit", id |-> h, ret |-> "suspended"]
                    /\ UNCHANGED <<semv, active_count>>
            /\ UNCHANGED <<max_size, gen, stopped, finalized, stop_pc, stop_wait>>

(* submit(func) called on the pool by its holder *)
submit ==
    /\ Submit
    /\ UNCHANGED notPool

(* a submit call that was suspended in acquire() resumes with its slot:    *)
(* it leaves the waiters, wakes the next one if the semaphore it waited on *)
(* has a free slot, counts the task and creates it                         *)
submit_resume(h) ==
    /\ Idle
    /\ hstate[h] = "granted"
    /\ LET g == hsem[h]
           woken == IF semv[g] > 0 THEN Woken(g, 1) ELSE {}
       IN /\ semv' = [semv EXCEPT ![g] = IF g < gen /\ Waiters(g) = {h}
                                         THEN 0 ELSE @ - Cardinality(woken)]
          /\ hstate' = [u \in Handles |->
                           IF u = h THEN "created"
                           ELSE IF u \in woken THEN "granted"
                           ELSE hstate[u]]
    /\ hsem' = [hsem EXCEPT ![h] = 0]
    /\ active_count' = active_count + 1
    /\ UNCHANGED <<max_size, gen, stopped, finalized, stop_pc, stop_wait>>
    /\ UNCHANGED <<notPool, call>>

(* the task's first step: wrapped() enters its try block and awaits func *)
wrapped_start(h) ==
    /\ Idle
    /\ hstate[h] = "created"
    /\ hstate' = [hstate EXCEPT ![h] = "running"]
    /\ UNCHANGED <<max_size, gen, semv, hsem, active_count, stopped, finalized,
                   stop_pc, stop_wait>>
    /\ UNCHANGED <<notPool, call>>

(* func returns or raises: the finally block runs *)
wrapped_end(h, outcome) ==
    /\ Idle
    /\ hstate[h] = "running"
    /\ Finalize({h}, h :> outcome)
    /\ UNCHANGED <<max_size, gen, stopped, stop_pc>>
    /\ UNCHANGED <<notPool, call>>

(* task.cancel() without effect *)
CancelNothing(H) == Finalize({}, <<>>)

(* task.cancel() on the tasks of H: CancelledError is thrown into each; a  *)
(* task inside its try block runs the finally block, a task whose          *)
(* coroutine has not begun ends without entering the try block             *)
Cancel(H) ==
    Finalize({h \in H : hstate[h] = "running"}, [h \in H |-> "cancelled"])

(* the holder of a handle cancels it *)
handle_cancel(h) ==
    /\ Idle
    /\ h \in _tasks
    /\ Cancel({h})
    /\ UNCHANGED <<max_size, gen, stopped, stop_pc>>
    /\ UNCHANGED <<notPool, call>>

(* resize(new_size): self._semaphore becomes a new semaphore; the calls    *)
(* suspended on the old one stay in the old one's waiters.  A replaced     *)
(* semaphore is referred to by its waiters alone: once it has none it is   *)
(* garbage, and its value is recorded as 0.                                *)
resize(new_size) ==
    /\ Idle
    /\ gen < MaxResizes
    /\ max_size' = new_size
    /\ gen' = gen + 1
    /\ semv' = [g \in Gens |-> IF g = gen + 1 THEN new_size
                                ELSE IF Waiters(g) = {} THEN 0 ELSE semv[g]]
    /\ UNCHANGED <<hstate, hsem, active_count, stopped, finalized, stop_pc, stop_wait>>
    /\ UNCHANGED <<notPool, call>>

(* stop(timeout): set _stopped; with tasks outstanding, gather them under  *)
(* wait_for                                                                *)
stop ==
    /\ Idle
    /\ stop_pc = "idle"
    /\ stopped' = TRUE
    /\ IF _tasks = {}
       THEN stop_pc' = "done" /\ stop_wait' = {}
       ELSE stop_pc' = "gather" /\ stop_wait' = _tasks
    /\ UNCHANGED <<max_size, gen, semv, hsem, active_count, hstate, finalized>>
    /\ UNCHANGED <<notPool, call>>

(* every gathered task is done within the timeout: stop returns *)
stop_gathered ==
    /\ Idle
    /\ stop_pc = "gather"
    /\ stop_wait = {}
    /\ stop_pc' = "done"
    /\ UNCHANGED <<max_size, gen, semv, hsem, active_count, stopped, hstate, finalized,
                   stop_wait>>
    /\ UNCHANGED <<notPool, call>>

(* the timeout expires: wait_for cancels the gather, stop cancels every    *)
(* task of self._tasks and gathers them                                    *)
stop_timeout ==
    /\ Idle
    /\ stop_pc = "gather"
    /\ stop_wait # {}
    /\ Cancel(_tasks)
    /\ stop_pc' = "done after cancel"
    /\ UNCHANGED <<max_size, gen, stopped>>
    /\ UNCHANGED <<notPool, call>>

(* CoroutinePool(max_size) *)
NewPool(size) ==
    /\ max_size = size
    /\ gen = 0
    /\ semv = [g \in Gens |-> IF g = 0 THEN size ELSE 0]
    /\ hsem = [h \in Handles |-> 0]
    /\ active_count = 0
    /\ stopped = FALSE
    /\ hstate = [h \in Handles |-> "unused"]
    /\ finalized = {}
    /\ stop_pc = "idle"
    /\ stop_wait = {}

PoolNext ==
    \/ submit
    \/ Return
    \/ \E h \in Handles : submit_resume(h)
    \/ \E h \in Handles : wrapped_start(h)
    \/ \E h \in Handles, outcome \in {"returned", "raised"} : wrapped_end(h, outcome)
    \/ \E h \in Handles : handle_cancel(h)
    \/ \E n \in 1..MaxPool : resize(n)
    \/ stop
    \/ stop_gathered
    \/ stop_timeout

(* ---- NodeManager ------------------------------------------------------ *)
(* One life of a node: run() starts it, consumes chunk messages and a      *)
(* caller stops it.  node.pc is where the consumer loop of run() stands:   *)
(*   new        run() has not been called                                  *)
(*   waiting    no task queue: the loop of sleeps                          *)
(*   iterating  in `async for message in queue_iter`, awaiting a message   *)
(*   in submit  inside message.process(), _handle_task suspended in        *)
(*              self._pool.submit                                          *)
(*   handled    _handle_task has returned, message.process() is exiting    *)
(*   broke      the loop is left                                           *)
(* node.type, node.handle and node.delivery describe the last message      *)
(* delivered: its task type, the pool task its handler was submitted as    *)
(* (0: none) and what the broker knows of it (none, unacked, acked).       *)
(* node.heartbeat is the state of the heartbeat task: none, sleeping,      *)
(* writing (inside _update_node_status), cancelling sleep / cancelling     *)
(* write (cancel() was called, the CancelledError is not yet delivered) or *)
(* done.  node.stopping is where stop() stands: idle, stopping (until the  *)
(* pool is stopped), update status, returned or raised.                    *)
TaskTypes == {"scan", "probe"}

NewNode == [_running |-> FALSE,
            _task_handlers |-> {},
            _connection |-> "none",
            row |-> "none",
            heartbeat |-> "none",
            pc |-> "new",
            type |-> "none",
            handle |-> 0,
            delivery |-> "none",
            stopping |-> "idle"]

(* NodeManager(node_id) *)
NewNodeManager == node = NewNode

(* register_handler(task_type, handler) *)
register_handler(task_type) ==
    /\ task_type \notin node._task_handlers
    /\ node' = [node EXCEPT !._task_handlers = @ \cup {task_type}]
    /\ UNCHANGED <<poolVars, call, notNode>>

(* run() calls start(): the pool is made, the broker connected (or not),   *)
(* the row written online and the heartbeat task created; then the loop    *)
(* begins                                                                  *)
node_start(connected) ==
    /\ node.pc = "new"
    /\ ~node._running
    /\ node' = [node EXCEPT !._running = TRUE,
                            !._connection = IF connected THEN "open" ELSE "none",
                            !.row = "online",
                            !.heartbeat = "sleeping",
                            !.pc = IF connected THEN "iterating" ELSE "waiting"]
    /\ UNCHANGED <<poolVars, call, notNode>>

(* _heartbeat_loop wakes from its sleep and tests self._running *)
heartbeat_wake ==
    /\ node.heartbeat = "sleeping"
    /\ node' = [node EXCEPT !.heartbeat = IF node._running THEN "writing" ELSE "done"]
    /\ UNCHANGED <<poolVars, call, notNode>>

(* _update_node_status("online") of the heartbeat is committed, or raises  *)
(* and is logged                                                           *)
heartbeat_written(ok) ==
    /\ node.heartbeat = "writing"
    /\ node' = [node EXCEPT !.heartbeat = "sleeping",
                            !.row = IF ok THEN "online" ELSE @]
    /\ UNCHANGED <<poolVars, call, notNode>>

(* the heartbeat task receives the CancelledError; a write it was inside   *)
(* is committed or not                                                     *)
heartbeat_cancelled(committed) ==
    /\ node.heartbeat \in {"cancelling sleep", "cancelling write"}
    /\ committed => node.heartbeat = "cancelling write"
    /\ node' = [node EXCEPT !.heartbeat = "done",
                            !.row = IF committed THEN "online" ELSE @]
    /\ UNCHANGED <<poolVars, call, notNode>>

(* the message is delivered when the node is no longer running: break *)
receive_break(task_type) ==
    /\ node.pc = "iterating" /\ node._connection = "open"
    /\ ~node._running
    /\ node' = [node EXCEPT !.pc = "broke", !.type = task_type, !.handle = 0,
                            !.delivery = "unacked"]
    /\ UNCHANGED <<poolVars, call, notNode>>

(* a message whose type has a handler is delivered: message.process() is   *)
(* entered and _handle_task calls self._pool.submit(handler, task_data),   *)
(* which returns the task, suspends or raises                              *)
receive_submit(task_type) ==
    /\ node.pc = "iterating" /\ node._connection = "open"
    /\ node._running
    /\ task_type \in node._task_handlers
    /\ Submit
    /\ node' = [node EXCEPT !.pc = IF call'.ret = "suspended" THEN "in submit" ELSE "handled",
                            !.type = task_type,
                            !.handle = call'.id,
                            !.delivery = "unacked"]
    /\ UNCHANGED notNode

(* a message whose type has no handler is delivered: _handle_task logs a   *)
(* warning                                                                 *)
receive_no_handler(task_type) ==
    /\ node.pc = "iterating" /\ node._connection = "open"
    /\ node._running
    /\ task_type \notin node._task_handlers
    /\ node' = [node EXCEPT !.pc = "handled", !.type = task_type, !.handle = 0,
                            !.delivery = "unacked"]
    /\ UNCHANGED <<poolVars, call, notNode>>

(* _handle_task returns at once *)
SubmitReturnedEarly == node.pc \in {"handled", "in submit"}

(* _handle_task has returned: submit returned or raised, or there was no   *)
(* handler                                                                 *)
SubmitReturned ==
    \/ node.pc = "handled"
    \/ node.pc = "in submit" /\ hstate[node.handle] \notin {"waiting", "granted"}

(* message.process() exits: the message is acked; on a closed connection   *)
(* the ack raises and run() leaves the loop                                *)
message_ack ==
    /\ SubmitReturned
    /\ node' = IF node._connection = "open"
               THEN [node EXCEPT !.pc = "iterating", !.delivery = "acked"]
               ELSE [node EXCEPT !.pc = "broke"]
    /\ UNCHANGED <<poolVars, call, notNode>>

(* stop() is called on the running node: _running = False and             *)
(* self._heartbeat_task.cancel()                                           *)
node_stop ==
    /\ node._running
    /\ node.stopping = "idle"
    /\ node' = [node EXCEPT !._running = FALSE,
                            !.heartbeat = IF @ = "writing" THEN "cancelling write"
                                          ELSE "cancelling sleep",
                            !.stopping = "stopping"]
    /\ UNCHANGED <<poolVars, call, notNode>>

(* stop() without `await self._heartbeat_task` *)
HeartbeatDoneAlways == TRUE

(* await self._heartbeat_task has returned *)
HeartbeatDone == node.heartbeat = "done"

(* stop(): await self._pool.stop() is called *)
node_pool_stop ==
    /\ node.stopping = "stopping"
    /\ HeartbeatDone
    /\ stop

(* stop(): the pool is stopped, the connection is closed *)
stop_disconnect ==
    /\ node.stopping = "stopping"
    /\ stop_pc \in {"done", "done after cancel"}
    /\ node' = [node EXCEPT !._connection = IF @ = "open" THEN "closed" ELSE @,
                            !.stopping = "update status"]
    /\ UNCHANGED <<poolVars, call, notNode>>

(* stop(): _update_node_status("offline") is committed and stop returns,   *)
(* or it raises                                                            *)
stop_update(ok) ==
    /\ node.stopping = "update status"
    /\ node' = [node EXCEPT !.row = IF ok THEN "offline" ELSE @,
                            !.stopping = IF ok THEN "returned" ELSE "raised"]
    /\ UNCHANGED <<poolVars, call, notNode>>

NodeNext ==
    \/ \E task_type \in TaskTypes : register_handler(task_type)
    \/ \E connected \in BOOLEAN : node_start(connected)
    \/ heartbeat_wake
    \/ \E ok \in BOOLEAN : heartbeat_written(ok)
    \/ \E committed \in BOOLEAN : heartbeat_cancelled(committed)
    \/ \E task_type \in TaskTypes : receive_break(task_type)
    \/ \E task_type \in TaskTypes : receive_submit(task_type)
    \/ \E task_type \in TaskTypes : receive_no_handler(task_type)
    \/ message_ack
    \/ Return
    \/ \E h \in Handles : submit_resume(h)
    \/ \E h \in Handles : wrapped_start(h)
    \/ \E h \in Handles, outcome \in {"returned", "raised"} : wrapped_end(h, outcome)
    \/ node_stop
    \/ node_pool_stop
    \/ stop_gathered
    \/ stop_timeout
    \/ stop_disconnect
    \/ \E ok \in BOOLEAN : stop_update(ok)

(* ---- VulnDetector ------------------------------------------------------ *)
(* The plugin directory holds three cases: a (critical, for targets tagged *)
(* web), b (no severity, no fingerprint predicate) and c (high, for the    *)
(* service Nginx); x is an id no plugin has.  _cases is the set of ids     *)
(* load_plugins has registered, and _case_metadata has the same keys.      *)
(* _default_rate_limit is the semaphore made by __init__: the limit it was *)
(* made with and its value.  Every scan_target call of a run has its own   *)
(* number c, which also stands for its target and task_id; scans[c] is its *)
(* record: the case_ids it was given, the index i of the case it is at,    *)
(* the status and the outcome of verify, the number of cleanup calls made  *)
(* for this case, and where it stands (pc):                                *)
(*   loop      at the head of `for case_id in case_ids`                    *)
(*   verify    awaiting wait_for(case.verify(...))                         *)
(*   cleanup   awaiting case.cleanup(...)                                  *)
(*   record    awaiting self._record_stat(...)                             *)
(*   returned, raised   the call is over                                   *)
(* scans holds the calls made so far.  stat_records counts the rows of the  *)
(* stat table by (call, vuln_id, status); a key without rows is not in its *)
(* domain.                                                                 *)
PluginOrder == <<"a", "b", "c">>
PluginIds == {"a", "b", "c"}
CaseLists == {<<>>, <<"a">>, <<"a", "b">>, <<"a", "a">>, <<"x", "a">>}
ScanCalls == 1..MaxScans
StatStatus == {"success", "timeout", "fail"}
VerifyOutcomes == {"returned", "timeout", "raised"}

(* case_class.__vuln_info__ of the plugins; a missing key is <<>> *)
__vuln_info__(id) ==
    CASE id = "a" -> [severity |-> <<"critical">>, tags |-> <<"web">>, service |-> ""]
      [] id = "b" -> [severity |-> <<>>, tags |-> <<>>, service |-> ""]
      [] id = "c" -> [severity |-> <<"high">>, tags |-> <<>>, service |-> "Nginx"]

(* str.lower() on the names in use *)
lower(text) == IF text = "Nginx" THEN "nginx" ELSE text

(* the fingerprints a target can have *)
Fingerprints == {[name |-> "Nginx", tags |-> {"web"}], [name |-> "ssh", tags |-> {}]}

(* the elements of a list *)
Elements(list) == {list[k] : k \in DOMAIN list}

(* get_matching_cases(fingerprints, policy, specified_ids); specified_ids  *)
(* is <<>> for None and <<list>> for a list                                *)
get_matching_cases(fingerprints, policy, specified_ids) ==
    IF policy = "specified" /\ specified_ids # <<>> /\ specified_ids[1] # <<>>
    THEN SelectSeq(specified_ids[1], LAMBDA id : id \in _cases)
    ELSE LET fp_tags == UNION {fp.tags : fp \in fingerprints}
             fp_names == {lower(fp.name) : fp \in fingerprints}
             Matches(vuln_id) ==
                 LET metadata == __vuln_info__(vuln_id)
                     severity == Get(metadata.severity, "medium")
                     required_tags == metadata.tags
                     required_service == metadata.service
                 IN /\ vuln_id \in _cases
                    /\ policy = "redline" => severity \in {"critical", "high"}
                    /\ required_tags # <<>> => Elements(required_tags) \cap fp_tags # {}
                    /\ required_service # "" => lower(required_service) \in fp_names
         IN SelectSeq(PluginOrder, Matches)

Policies == {"full", "redline", "smart", "specified"}
SpecifiedIds == Optional({<<>>, <<"a">>, <<"x", "a">>, <<"b", "a", "a">>})
NotCalled == [called |-> FALSE]

(* a caller calls get_matching_cases and gets ret *)
call_get_matching_cases(fingerprints, policy, specified_ids) ==
    /\ matching' = [called |-> TRUE,
                    fingerprints |-> fingerprints,
                    policy |-> policy,
                    specified_ids |-> specified_ids,
                    ret |-> get_matching_cases(fingerprints, policy, specified_ids)]
    /\ UNCHANGED <<_cases, _default_rate_limit, scans, stat_records, notDetector>>

(* load_plugins() on a directory holding the plugins of ids *)
load_plugins(ids) ==
    /\ _cases = {}
    /\ ids # {}
    /\ _cases' = ids
    /\ UNCHANGED <<_default_rate_limit, scans, stat_records, matching, notDetector>>

NoScan == [pc |-> "loop", case_ids |-> <<>>, i |-> 1, status |-> "none",
           outcome |-> "none", cleaned |-> 0]

(* the number of rows of the stat table with this key *)
Rows(key) == IF key \in DOMAIN stat_records THEN stat_records[key] ELSE 0

(* scan_target(target, task_id, fingerprints, case_ids) without            *)
(* auth_config: the anonymous Session is made and the loop reached         *)
scan_target(c, case_ids) ==
    /\ c = Len(scans) + 1
    /\ scans' = Append(scans, [NoScan EXCEPT !.case_ids = case_ids])
    /\ UNCHANGED <<_cases, _default_rate_limit, stat_records, matching, notDetector>>

(* the head of the loop: return after the last case id, skip an id that is *)
(* not registered, else instantiate the case and call verify under         *)
(* wait_for                                                                *)
loop_next(c) ==
    /\ c \in DOMAIN scans
    /\ scans[c].pc = "loop"
    /\ LET sc == scans[c]
       IN scans' = [scans EXCEPT ![c] =
                       IF sc.i > Len(sc.case_ids) THEN [sc EXCEPT !.pc = "returned"]
                       ELSE IF sc.case_ids[sc.i] \notin _cases THEN [sc EXCEPT !.i = @ + 1]
                       ELSE [sc EXCEPT !.pc = "verify", !.status = "success",
                                       !.outcome = "none", !.cleaned = 0]]
    /\ UNCHANGED <<_cases, _default_rate_limit, stat_records, matching, notDetector>>

(* except clauses that catch the timeout alone *)
CaughtTimeoutOnly(outcome) == outcome = "timeout"

(* the except clauses of the loop body: asyncio.TimeoutError and Exception *)
Caught(outcome) == outcome \in {"timeout", "raised"}

(* wait_for(verify) ends: verify returned (cleanup is called next), the    *)
(* timeout expired or verify raised                                        *)
verify_done(c, outcome) ==
    /\ c \in DOMAIN scans
    /\ scans[c].pc = "verify"
    /\ scans' = [scans EXCEPT ![c] =
                    IF outcome = "returned" THEN [@ EXCEPT !.pc = "cleanup", !.outcome = outcome]
                    ELSE IF Caught(outcome)
                    THEN [@ EXCEPT !.pc = "record", !.outcome = outcome,
                                   !.status = IF outcome = "timeout" THEN "timeout" ELSE "fail"]
                    ELSE [@ EXCEPT !.pc = "raised", !.outcome = outcome]]
    /\ UNCHANGED <<_cases, _default_rate_limit, stat_records, matching, notDetector>>

(* case.cleanup(target, session) returns, or raises and is logged *)
cleanup_done(c, raised) ==
    /\ c \in DOMAIN scans
    /\ scans[c].pc = "cleanup"
    /\ scans' = [scans EXCEPT ![c] = [@ EXCEPT !.pc = "record", !.cleaned = @ + 1]]
    /\ UNCHANGED <<_cases, _default_rate_limit, stat_records, matching, notDetector>>

(* _record_stat(...): the StatRecord is added, or the session raises and   *)
(* the error is logged; the loop goes on                                   *)
_record_stat(c, added) ==
    /\ c \in DOMAIN scans
    /\ scans[c].pc = "record"
    /\ LET sc == scans[c]
           key == <<c, sc.case_ids[sc.i], sc.status>>
       IN stat_records' = IF added THEN (key :> Rows(key) + 1) @@ stat_records
                          ELSE stat_records
    /\ scans' = [scans EXCEPT ![c] = [@ EXCEPT !.pc = "loop", !.i = @ + 1]]
    /\ UNCHANGED <<_cases, _default_rate_limit, matching, notDetector>>

(* VulnDetector() with settings.scanner_rate_limit = limit *)
NewDetector(limit) ==
    /\ _cases = {}
    /\ _default_rate_limit = [limit |-> limit, value |-> limit]
    /\ scans = <<>>
    /\ stat_records = <<>>
    /\ matching = NotCalled

(* load_plugins() at startup, before any scan_target or                   *)
(* get_matching_cases call                                                 *)
startup_load_plugins(ids) ==
    /\ scans = <<>>
    /\ ~matching.called
    /\ load_plugins(ids)

(* the first scan_target call of the process *)
scan_one_target(case_ids) ==
    /\ scans = <<>>
    /\ \E c \in ScanCalls : scan_target(c, case_ids)

DetectorNext ==
    \/ \E ids \in SUBSET PluginIds : startup_load_plugins(ids)
    \/ \E case_ids \in CaseLists : scan_one_target(case_ids)
    \/ \E c \in ScanCalls : loop_next(c)
    \/ \E c \in ScanCalls, outcome \in VerifyOutcomes : verify_done(c, outcome)
    \/ \E c \in ScanCalls, raised \in BOOLEAN : cleanup_done(c, raised)
    \/ \E c \in ScanCalls, added \in BOOLEAN : _record_stat(c, added)

(* scan_target calls of one case each, running together *)
RateNext ==
    \/ \E ids \in SUBSET PluginIds : startup_load_plugins(ids)
    \/ \E c \in ScanCalls : scan_target(c, <<"a">>)
    \/ \E c \in ScanCalls : loop_next(c)
    \/ \E c \in ScanCalls, outcome \in VerifyOutcomes : verify_done(c, outcome)
    \/ \E c \in ScanCalls, raised \in BOOLEAN : cleanup_done(c, raised)
    \/ \E c \in ScanCalls, added \in BOOLEAN : _record_stat(c, added)

MatcherNext ==
    \/ \E ids \in SUBSET PluginIds : startup_load_plugins(ids)
    \/ \E fingerprints \in SUBSET Fingerprints, policy \in Policies,
          specified_ids \in SpecifiedIds :
          call_get_matching_cases(fingerprints, policy, specified_ids)

(* ---- AuthManager ------------------------------------------------------ *)
(* Text is a sequence of characters.  Every get_session call of a run has  *)
(* its own number c, and gs[c] is its record: where it stands (pc), its    *)
(* arguments, the answer its login request got (out) and the Session it    *)
(* returned (result); auth_config is the user name of the auth_config of   *)
(* the scan_target call that makes the call (None for a direct call), and  *)
(* creds the user name of the credentials handed to _authenticate.  pc is                                                *)
(*   unused    the call has not been made                                  *)
(*   waiting   suspended in self._lock.acquire()                           *)
(*   auth      inside the lock, awaiting the login request                 *)
(*   returned  the call has returned result                                *)
(* A call constructs at most one Session, so the Session constructed by    *)
(* call c is numbered c; 0 stands for no Session.  _sessions maps each     *)
(* cache key to the cached Session, _credentials maps the login points     *)
(* whose credentials are set to the user name set, and _client[s] is the   *)
(* httpx client of                                                         *)
(* Session s: None (no client, close() never called), open, or closed      *)
(* (no client, after a close() call).                                      *)
GetSessionCalls == 1..MaxCalls
LoginPoints == {<<"a">>, <<"a", ":", "u">>}
BaseUrls == {<<"u">>, <<"u", ":", "u", "/">>, <<"u", "/">>}

(* the (login_point, base_url) pairs get_session and invalidate_session    *)
(* are called with: a plain pair, and two pairs that differ in both parts  *)
(* and whose base URLs end in "/"                                          *)
SessionPoints == {<<<<"a">>, <<"u">>>>,
                  <<<<"a">>, <<"u", ":", "u", "/">>>>,
                  <<<<"a", ":", "u">>, <<"u", "/">>>>}

(* f"{login_point}:{base_url}" *)
cache_key(login_point, base_url) == login_point \o <<":">> \o base_url
CacheKeys == {cache_key(lp, url) : lp \in LoginPoints, url \in BaseUrls}

(* str.rstrip(chars) for a single character *)
RECURSIVE rstrip(_, _)
rstrip(text, ch) ==
    IF text # <<>> /\ text[Len(text)] = ch
    THEN rstrip(SubSeq(text, 1, Len(text) - 1), ch)
    ELSE text

(* what the login request can end in: 200 with a token in its JSON, 200    *)
(* with cookies only, another status, an exception of the client           *)
LoginOutcomes == {"200 token", "200 cookies", "401", "exception"}
NoLogin == "no login"

NoGetSession == [pc |-> "unused", login_point |-> <<>>, base_url |-> <<>>,
                 force_new |-> FALSE, out |-> NoLogin, result |-> 0,
                 auth_config |-> None, creds |-> None]

(* the Session objects constructed so far *)
Created == {c \in GetSessionCalls : gs[c].pc = "returned" /\ gs[c].result = c}

(* every Session carries a token *)
SessionTokenAlways(s) == "token"

(* the fields of Session s: Session(base_url, cookies, token) *)
SessionBaseUrl(s) == rstrip(gs[s].base_url, "/")
SessionToken(s) == IF gs[s].out = "200 token" THEN "token" ELSE None
SessionCookies(s) == IF gs[s].out \in {"200 token", "200 cookies"} THEN "cookies" ELSE None

(* the lock that is never held *)
LockedNever == FALSE

(* self._lock.locked(): the lock is held across a suspension only by a     *)
(* get_session call awaiting _authenticate                                 *)
Locked == \E c \in GetSessionCalls : gs[c].pc = "auth"

(* the calls suspended in self._lock.acquire() *)
LockWaiters == {c \in GetSessionCalls : gs[c].pc = "waiting"}

(* the body of get_session up to the await of _authenticate, for call c   *)
(* entering the lock with the arguments of rec, credentials being          *)
(* self._credentials at that moment                                        *)
EnterWith(credentials, rec, c) ==
    LET key == cache_key(rec.login_point, rec.base_url)
    IN IF ~rec.force_new /\ _sessions[key] # 0
       THEN /\ gs' = [gs EXCEPT ![c] = [rec EXCEPT !.pc = "returned",
                                                   !.result = _sessions[key]]]
            /\ UNCHANGED _sessions
       ELSE IF rec.login_point \notin DOMAIN credentials
       THEN /\ gs' = [gs EXCEPT ![c] = [rec EXCEPT !.pc = "returned", !.result = c]]
            /\ _sessions' = [_sessions EXCEPT ![key] = c]
       ELSE /\ gs' = [gs EXCEPT ![c] = [rec EXCEPT !.pc = "auth",
                                                   !.creds = credentials[rec.login_point]]]
            /\ UNCHANGED _sessions

Enter(c, login_point, base_url, force_new) ==
    EnterWith(_credentials,
              [gs[c] EXCEPT !.login_point = login_point,
                            !.base_url = base_url,
                            !.force_new = force_new],
              c)

(* self._credentials after set_credentials(login_point, username, ...) *)
SetCredentials(login_point, username) == (login_point :> username) @@ _credentials

set_credentials(login_point, username) ==
    /\ Idle
    /\ _credentials' = SetCredentials(login_point, username)
    /\ UNCHANGED <<_sessions, _client, gs>>
    /\ UNCHANGED <<notAuth, call>>

(* get_session(login_point, base_url, force_new): the call enters the lock *)
(* at once when it is free and nobody waits for it, and is suspended       *)
(* otherwise                                                               *)
get_session(c, login_point, base_url, force_new) ==
    /\ Idle
    /\ gs[c].pc = "unused"
    /\ \A u \in GetSessionCalls : u < c => gs[u].pc # "unused"
    /\ IF Locked \/ LockWaiters # {}
       THEN /\ gs' = [gs EXCEPT ![c] = [NoGetSession EXCEPT !.pc = "waiting",
                                                            !.login_point = login_point,
                                                            !.base_url = base_url,
                                                            !.force_new = force_new]]
            /\ UNCHANGED _sessions
       ELSE Enter(c, login_point, base_url, force_new)
    /\ UNCHANGED <<_credentials, _client>>
    /\ UNCHANGED <<notAuth, call>>

(* the lock is released: the call that has waited longest enters *)
get_session_resume(c) ==
    /\ Idle
    /\ gs[c].pc = "waiting"
    /\ \A u \in LockWaiters : c <= u
    /\ ~Locked
    /\ Enter(c, gs[c].login_point, gs[c].base_url, gs[c].force_new)
    /\ UNCHANGED <<_credentials, _client>>
    /\ UNCHANGED <<notAuth, call>>

(* _authenticate returns the Session made from the login response, or an   *)
(* anonymous one; get_session caches it, leaves the lock and returns it    *)
_authenticate(c, outcome) ==
    /\ Idle
    /\ gs[c].pc = "auth"
    /\ gs' = [gs EXCEPT ![c].pc = "returned", ![c].out = outcome, ![c].result = c]
    /\ _sessions' = [_sessions EXCEPT ![cache_key(gs[c].login_point, gs[c].base_url)] = c]
    /\ UNCHANGED <<_credentials, _client>>
    /\ UNCHANGED <<notAuth, call>>

(* a holder of Session s sends a request: _get_client() opens the client; *)
(* holders send no request on a Session after its close()                 *)
session_request(s) ==
    /\ Idle
    /\ s \in Created
    /\ _client[s] # "closed"
    /\ _client' = [_client EXCEPT ![s] = "open"]
    /\ UNCHANGED <<_sessions, _credentials, gs>>
    /\ UNCHANGED <<notAuth, call>>

(* Session.close() on the Sessions of S *)
Close(S) == [s \in GetSessionCalls |-> IF s \in S THEN "closed" ELSE _client[s]]

(* invalidate_session and close_all take the lock as get_session does;     *)
(* they are shown at the moment they hold it                               *)
invalidate_session(login_point, base_url) ==
    /\ Idle
    /\ ~Locked /\ LockWaiters = {}
    /\ LET key == cache_key(login_point, base_url)
       IN IF _sessions[key] # 0
          THEN /\ _client' = Close({_sessions[key]})
               /\ _sessions' = [_sessions EXCEPT ![key] = 0]
          ELSE UNCHANGED <<_client, _sessions>>
    /\ UNCHANGED <<_credentials, gs>>
    /\ UNCHANGED <<notAuth, call>>

close_all ==
    /\ Idle
    /\ ~Locked /\ LockWaiters = {}
    /\ _client' = Close({_sessions[key] : key \in CacheKeys})
    /\ _sessions' = [key \in CacheKeys |-> 0]
    /\ call' = [op |-> "close_all", id |-> 0, ret |-> None]
    /\ UNCHANGED <<_credentials, gs>>
    /\ UNCHANGED notAuth

(* the user names of the auth_config of the scan_target calls *)
Usernames == {"u1", "u2"}

(* the login point and base URL of the scanned targets: one login point    *)
(* name used for two base URLs                                             *)
ScanPoints == {<<<<"a">>, <<"u">>>>, <<<<"a">>, <<"u", "/">>>>}

(* get_session made by scan_target after its set_credentials, the call     *)
(* entering the lock at once                                               *)
EnterAfterSet(c, login_point, username, base_url) ==
    EnterWith(SetCredentials(login_point, username),
              [NoGetSession EXCEPT !.login_point = login_point,
                                   !.base_url = base_url,
                                   !.auth_config = username],
              c)

(* scan_target(..., auth_config={login_point: {username, password}},      *)
(* base_url) up to its first await: set_credentials for the login point,   *)
(* then get_session(login_point, base_url), which enters the lock or is    *)
(* suspended                                                               *)
scan_target_session(c, login_point, username, base_url) ==
    /\ Idle
    /\ gs[c].pc = "unused"
    /\ \A u \in GetSessionCalls : u < c => gs[u].pc # "unused"
    /\ _credentials' = SetCredentials(login_point, username)
    /\ IF Locked \/ LockWaiters # {}
       THEN /\ gs' = [gs EXCEPT ![c] = [NoGetSession EXCEPT !.pc = "waiting",
                                                            !.login_point = login_point,
                                                            !.base_url = base_url,
                                                            !.auth_config = username]]
            /\ UNCHANGED _sessions
       ELSE EnterAfterSet(c, login_point, username, base_url)
    /\ UNCHANGED _client
    /\ UNCHANGED <<notAuth, call>>

ScanAuthNext ==
    \/ \E c \in GetSessionCalls, p \in ScanPoints, username \in Usernames :
          scan_target_session(c, p[1], username, p[2])
    \/ \E c \in GetSessionCalls : get_session_resume(c)
    \/ \E c \in GetSessionCalls, outcome \in LoginOutcomes : _authenticate(c, outcome)

(* AuthManager() *)
NewAuthManager ==
    /\ _sessions = [key \in CacheKeys |-> 0]
    /\ _credentials = <<>>
    /\ _client = [s \in GetSessionCalls |-> None]
    /\ gs = [c \in GetSessionCalls |-> NoGetSession]

AuthNext ==
    \/ \E lp \in LoginPoints, username \in {"u1"} : set_credentials(lp, username)
    \/ \E c \in GetSessionCalls, p \in SessionPoints, force_new \in BOOLEAN :
          get_session(c, p[1], p[2], force_new)
    \/ \E c \in GetSessionCalls : get_session_resume(c)
    \/ \E c \in GetSessionCalls, outcome \in LoginOutcomes : _authenticate(c, outcome)
    \/ \E s \in GetSessionCalls : session_request(s)
    \/ \E p \in SessionPoints : invalidate_session(p[1], p[2])
    \/ close_all
    \/ Return

TaskInit ==
    /\ tasks = [t \in TaskIds |-> NoTask]
    /\ call = NoCall
    /\ NoTransaction
    /\ NewDispatcher
    /\ NewConsumer

TaskNext ==
    \/ \E targets \in TargetLists : create_default_task(targets)
    \/ \E failing \in SUBSET TaskIds : schedule_pending_tasks(failing)
    \/ \E t \in AllIds, published \in BOOLEAN : dispatch_task(t, published)
    \/ \E m \in Messages : _handle_result(m)
    \/ \E t \in AllIds : pause_task(t)
    \/ \E t \in AllIds : resume_task(t)
    \/ \E t \in AllIds : cancel_task(t)
    \/ Return
    \/ \E t \in AllIds, c \in 0..MaxProgress, total \in Optional(0..MaxProgress) :
          update_progress(t, c, total)
    \/ \E t \in AllIds : mark_running(t)
    \/ \E t \in AllIds : mark_completed(t)
    \/ \E t \in AllIds, e \in ErrorTexts : mark_failed(t, e)

(* ---- FingerprintEngine ------------------------------------------------- *)
(* fingerprint_engine._cache maps a URL to the fingerprint list cached for *)
(* it; fingerprint_engine.calls lists the identify calls made, each with   *)
(* its URL, where it stands (fetching: suspended in the HTTP requests;     *)
(* returned) and the list it returned.                                     *)
Hosts == {"h"}
Ports == {<<>>, <<80>>, <<443>>, <<8080>>}

(* what `await client.get(url, follow_redirects=True)` gives: a response   *)
(* with this Server header, or an exception                                *)
Responses == {"nginx/1.2", "Apache", "raised"}

(* scheme = "https" if port == 443 else "http"; the port is part of the    *)
(* URL when it is given and is neither 80 nor 443                          *)
BuildUrl(target, port) ==
    [scheme |-> IF port = <<443>> THEN "https" ELSE "http",
     target |-> target,
     port |-> IF port # <<>> /\ port[1] \notin {80, 443} THEN port ELSE <<>>]

(* _identify_web on a response that matches through its Server header only *)
_identify_web(response) ==
    CASE response = "nginx/1.2" -> <<[name |-> "nginx", version |-> "1.2"]>>
      [] response = "Apache" -> <<[name |-> "Apache", version |-> "None"]>>
      [] OTHER -> <<>>

(* identify(target, port, use_cache) up to its first await: a cache hit    *)
(* returns the cached list, anything else goes on to fetch the page        *)
identify(target, port, use_cache) ==
    /\ Len(fingerprint_engine.calls) < MaxIdentify
    /\ LET url == BuildUrl(target, port)
           _cache == fingerprint_engine._cache
       IN fingerprint_engine' =
             [fingerprint_engine EXCEPT !.calls =
                 Append(@, IF use_cache /\ url \in DOMAIN _cache
                           THEN [url |-> url, pc |-> "returned", ret |-> _cache[url]]
                           ELSE [url |-> url, pc |-> "fetching", ret |-> <<>>])]
    /\ UNCHANGED notEngine

(* the requests of the k-th call are over: fingerprints is what was        *)
(* identified, or empty when a request raised; self._cache[url] =          *)
(* fingerprints; return fingerprints                                       *)
identify_fetched(k, response) ==
    /\ k \in 1..Len(fingerprint_engine.calls)
    /\ fingerprint_engine.calls[k].pc = "fetching"
    /\ LET url == fingerprint_engine.calls[k].url
           fingerprints == IF response = "raised" THEN <<>> ELSE _identify_web(response)
       IN fingerprint_engine' =
             [fingerprint_engine EXCEPT !._cache = (url :> fingerprints) @@ @,
                                        !.calls[k] = [url |-> url, pc |-> "returned",
                                                      ret |-> fingerprints]]
    /\ UNCHANGED notEngine

(* clear_cache() *)
clear_cache ==
    /\ fingerprint_engine' = [fingerprint_engine EXCEPT !._cache = <<>>]
    /\ UNCHANGED notEngine

(* FingerprintEngine() *)
NewFingerprintEngine == fingerprint_engine = [_cache |-> <<>>, calls |-> <<>>]

EngineNext ==
    \/ \E target \in Hosts, port \in Ports, use_cache \in BOOLEAN :
          identify(target, port, use_cache)
    \/ \E k \in 1..MaxIdentify, response \in Responses : identify_fetched(k, response)
    \/ clear_cache

(* the objects of a scanner process, constructed *)
NewScanner == NewNodeManager /\ NewDetector(DefaultRateLimit) /\ NewFingerprintEngine

(* the scheduler: the task store under TaskManager and Dispatcher calls *)
Init == TaskInit /\ NewPool(DefaultMaxSize) /\ NewAuthManager /\ NoExpander /\ NewScanner
Next == TaskNext
Spec == Init /\ [][Next]_vars

(* a scanner node's pool, constructed with any size up to MaxPool *)
PoolInit ==
    /\ TaskInit /\ NewAuthManager /\ NoExpander /\ NewScanner
    /\ \E size \in 1..MaxPool : NewPool(size)
PoolSpec == PoolInit /\ [][PoolNext]_vars

(* the scheduler creating tasks and running schedule_pending_tasks, one    *)
(* await at a time                                                         *)
DispatchSpec == Init /\ [][DispatchNext]_vars

(* the fingerprint engine of a scanner process under identify and          *)
(* clear_cache calls                                                       *)
EngineSpec == Init /\ [][EngineNext]_vars

(* scan_target calls of a scanner process getting their sessions *)
ScanAuthSpec == Init /\ [][ScanAuthNext]_vars

(* status operations on the tasks entering their transactions at any time *)
TransactionSpec == Init /\ [][TransactionNext]_vars

(* the same with a second schedule_pending_tasks call running meanwhile *)
ConcurrentDispatchSpec == Init /\ [][ConcurrentDispatchNext]_vars

(* schedule_pending_tasks run on a table of up to MaxBacklog pending tasks *)
BacklogInit ==
    /\ \E k \in 0..MaxBacklog : tasks = Backlog(k)
    /\ call = NoCall
    /\ NoTransaction
    /\ NewDispatcher
    /\ NewConsumer
    /\ NewPool(DefaultMaxSize) /\ NewAuthManager /\ NoExpander /\ NewScanner
BacklogSpec == BacklogInit /\ [][BacklogNext]_vars

(* the scheduler creating tasks while start_result_consumer handles the    *)
(* results that arrive                                                     *)
ConsumerSpec == Init /\ [][ConsumerNext]_vars

(* a scanner node run with a pool of any size up to MaxPool, the handlers  *)
(* it submits and the caller that stops it                                 *)
NodeSpec == PoolInit /\ [][NodeNext]_vars

(* one scan_target call of the VulnDetector, one await at a time *)
DetectorSpec == Init /\ [][DetectorNext]_vars

(* up to MaxScans scan_target calls running together in a process whose    *)
(* scanner_rate_limit is at most MaxRateLimit                              *)
RateInit ==
    /\ TaskInit /\ NewPool(DefaultMaxSize) /\ NewAuthManager /\ NoExpander /\ NewNodeManager
    /\ \E limit \in 1..MaxRateLimit : NewDetector(limit)
    /\ NewFingerprintEngine
RateSpec == RateInit /\ [][RateNext]_vars

(* get_matching_cases called on a detector with any plugins loaded *)
MatcherSpec == Init /\ [][MatcherNext]_vars

(* the scanner node's AuthManager and the Sessions it hands out *)
AuthSpec == Init /\ [][AuthNext]_vars

(* _count_targets and split_targets applied to a target list of at most   *)
(* MaxTargets specifiers, with a chunk_size of at most MaxChunkSize        *)
ExpanderInit ==
    /\ TaskInit /\ NewPool(DefaultMaxSize) /\ NewAuthManager /\ NewScanner
    /\ expander_args \in [targets : ListsUpTo(MaxTargets), chunk_size : 1..MaxChunkSize]
    /\ expander_ret = NoExpanderCall
ExpanderSpec == ExpanderInit /\ [][ExpanderNext]_vars

(* the pool on a running event loop: a call that has its result returns,  *)
(* the timer of wait_for fires, and a finished gather wakes stop           *)
PoolLiveSpec ==
    /\ PoolSpec
    /\ WF_vars(Return)
    /\ SF_vars(stop_gathered)
    /\ SF_vars(stop_timeout)

(* ======================================================================= *)
(* Properties of the scheduler (checked under Spec)                        *)
(* ======================================================================= *)

(* C1: for every task, in every reachable state,                           *)
(* 0 <= progress_completed <= progress_total.                              *)
C1_ProgressWithinTotal ==
    \A t \in TaskIds :
        Found(t) => /\ 0 <= tasks[t].progress_completed
                    /\ tasks[t].progress_completed <= tasks[t].progress_total

(* C2: no step ever decreases a task's progress_completed.                 *)
C2_ProgressNeverDecreases ==
    [][\A t \in TaskIds :
          Found(t) => tasks'[t].progress_completed >= tasks[t].progress_completed]_vars

(* the edges of the task state machine *)
Edges == {<<PENDING, RUNNING>>, <<RUNNING, PAUSED>>, <<PAUSED, RUNNING>>,
          <<RUNNING, COMPLETED>>, <<RUNNING, FAILED>>, <<PAUSED, FAILED>>,
          <<PENDING, FAILED>>}

(* C3: every change of a task's status is an edge of the task state        *)
(* machine.                                                                *)
C3_OnlyStateMachineEdges ==
    [][\A t \in TaskIds :
          (Found(t) /\ tasks'[t].status # tasks[t].status)
              => <<tasks[t].status, tasks'[t].status>> \in Edges]_vars

(* C4: completed and failed are terminal (no step changes such a status),  *)
(* and no step sets the status of an existing task to pending.             *)
C4_TerminalStatesStay ==
    [][\A t \in TaskIds :
          /\ tasks[t].status \in {COMPLETED, FAILED} => tasks'[t].status = tasks[t].status
          /\ (Found(t) /\ tasks[t].status # PENDING) => tasks'[t].status # PENDING]_vars

(* C5: pause_task(t) returns true and sets status = paused exactly when    *)
(* task t exists with status running; resume_task(t) returns true and sets *)
(* status = running exactly when t exists with status paused; every other  *)
(* call returns false and leaves all task records unchanged.               *)
C5_PauseResumeGuarded ==
    [][\A t \in AllIds :
          /\ (Idle /\ call'.op = "pause_task" /\ call'.id = t) =>
                IF t \in TaskIds /\ tasks[t].status = RUNNING
                THEN call'.ret = "True" /\ tasks' = [tasks EXCEPT ![t].status = PAUSED]
                ELSE call'.ret = "False" /\ tasks' = tasks
          /\ (Idle /\ call'.op = "resume_task" /\ call'.id = t) =>
                IF t \in TaskIds /\ tasks[t].status = PAUSED
                THEN call'.ret = "True" /\ tasks' = [tasks EXCEPT ![t].status = RUNNING]
                ELSE call'.ret = "False" /\ tasks' = tasks]_vars

(* a resume has just succeeded on a task that an earlier pause had paused *)
C5_Witness ==
    /\ call.op = "resume_task"
    /\ call.ret = "True"
    /\ tasks[call.id].status = RUNNING

(* a task that still carries the error_message of its cancel: only a       *)
(* successful cancel_task writes this text                                 *)
WasCancelled(t) == t \in TaskIds /\ tasks[t].error_message = CancelMessage

(* C6: cancel_task(t) on a pending, running or paused task returns true    *)
(* and sets status = failed and error_message = "Task cancelled by user";  *)
(* on a completed, failed or missing task it returns false and changes     *)
(* nothing; every pause_task or resume_task on a task after its successful *)
(* cancel returns false.                                                   *)
C6_CancelIsFinal ==
    [][\A t \in AllIds :
          /\ (Idle /\ call'.op = "cancel_task" /\ call'.id = t) =>
                IF t \in TaskIds /\ tasks[t].status \in {PENDING, RUNNING, PAUSED}
                THEN /\ call'.ret = "True"
                     /\ tasks' = [tasks EXCEPT ![t].status = FAILED,
                                               ![t].error_message = CancelMessage]
                ELSE call'.ret = "False" /\ tasks' = tasks
          /\ (Idle /\ call'.op \in {"pause_task", "resume_task"} /\ call'.id = t
                   /\ WasCancelled(t)) => call'.ret = "False"]_vars

(* C7: a step that brings a running task's progress_completed to equal its *)
(* progress_total makes the task completed.                                *)
C7_FullProgressCompletes ==
    [][\A t \in TaskIds :
          (/\ tasks[t].status = RUNNING
           /\ tasks[t].progress_completed # tasks[t].progress_total
           /\ tasks'[t].progress_completed = tasks'[t].progress_total)
              => tasks'[t].status = COMPLETED]_vars

(* ======================================================================= *)
(* Properties of the pool (checked under PoolSpec)                         *)
(* ======================================================================= *)

(* the tasks submit has launched that have not ended *)
Unfinished == {h \in Handles : hstate[h] \in {"created", "running"}}

(* resize has not been called *)
NeverResized == gen = 0

(* C8: in a pool that has not been resized, active_count and the number of *)
(* launched, unfinished tasks are at most max_size; a submit made while    *)
(* active_count = max_size suspends without launching anything, a task is  *)
(* launched only while active_count < max_size, and active_count decreases *)
(* only in a step in which a launched task ends.                           *)
C8_CapacityBound ==
    /\ [](NeverResized => /\ active_count <= max_size
                          /\ Cardinality(Unfinished) <= active_count)
    /\ [][NeverResized' =>
            /\ (Idle /\ call'.op = "submit" /\ ~stopped /\ active_count = max_size)
                  => /\ call'.ret = "suspended"
                     /\ hstate'[call'.id] = "waiting"
                     /\ Unfinished' = Unfinished
            /\ \A h \in Handles :
                  (hstate[h] \notin {"created", "running"} /\ hstate'[h] = "created")
                      => active_count < max_size
            /\ active_count' < active_count
                  => \E h \in Unfinished : hstate'[h] \in Done /\ h \in finalized']_vars

(* the pool is full and a submit is suspended behind it *)
C8_Witness ==
    /\ NeverResized
    /\ active_count = max_size
    /\ Cardinality(Unfinished) = max_size
    /\ \E h \in Handles : hstate[h] = "waiting"

(* C9: every task that has ended has run its finalizer (active_count       *)
(* decremented, slot released), whichever way it ended; so in a pool that  *)
(* was not resized, with no submit in progress and no task outstanding,    *)
(* active_count = 0 and all max_size slots are free.                       *)
C9_FinalizerOnEveryExit ==
    /\ \A h \in Handles : hstate[h] \in Done => h \in finalized
    /\ (NeverResized /\ \A h \in Handles : hstate[h] \in Done \cup {"unused"})
          => (active_count = 0 /\ semv[gen] = max_size)

(* C10: a submit called on a stopped pool fails with the pool-stopped      *)
(* error and leaves the tasks, active_count and the free slots unchanged.  *)
C10_SubmitAfterStopFails ==
    [][(Idle /\ stopped /\ call'.op = "submit")
          => /\ call'.ret = "PoolStopped"
             /\ UNCHANGED <<hstate, active_count, semv, gen, max_size, finalized>>]_vars

(* a submit has just failed on a stopped pool that still has tasks running *)
C10_Witness ==
    /\ call.op = "submit"
    /\ call.ret = "PoolStopped"
    /\ stopped
    /\ active_count > 0

(* stop has returned *)
StopReturned == stop_pc \in {"done", "done after cancel"}

(* C11: stop always returns; the tasks outstanding when stop is called are *)
(* the ones it waits for, a task leaves that set only by being done, a     *)
(* done task stays done with its outcome, a return within the timeout      *)
(* cancels nothing, and a return at the timeout leaves every task still    *)
(* waited for cancelled.                                                   *)
C11_StopReturnsWithTasksDone ==
    /\ (stop_pc = "gather") ~> StopReturned
    /\ [][/\ (stop_pc = "idle" /\ stop_pc' # "idle")
               => /\ stopped'
                  /\ hstate' = hstate
                  /\ IF _tasks = {} THEN StopReturned'
                     ELSE stop_pc' = "gather" /\ stop_wait' = _tasks
          /\ \A h \in Handles : hstate[h] \in Done => hstate'[h] = hstate[h]
          /\ (stop_pc = "gather" /\ stop_pc' = "gather")
               => /\ stop_wait' \subseteq stop_wait
                  /\ \A h \in stop_wait \ stop_wait' : hstate'[h] \in Done
          /\ (stop_pc = "gather" /\ StopReturned')
               => /\ \A h \in stop_wait : hstate'[h] = "cancelled"
                  /\ stop_wait = {} => hstate' = hstate]_vars

(* stop has returned after its timeout: it cancelled a task, and a task    *)
(* that finished by itself kept its outcome                                *)
C11_Witness ==
    /\ stop_pc = "done after cancel"
    /\ \E h \in Handles : hstate[h] = "cancelled" /\ h \in finalized
    /\ \E h \in Handles : hstate[h] = "returned"

(* the submit call that has been suspended longest *)
FirstSuspended(h) ==
    /\ hstate[h] = "waiting"
    /\ \A u \in Handles : u < h => hstate[u] # "waiting"

(* C12: a resize step sets max_size to the capacity of the semaphore in    *)
(* use and changes no task, no suspended call and not active_count; and    *)
(* the submit calls made before it go on as without it: whenever a task    *)
(* runs its finalizer, the submit call suspended longest gets the slot.    *)
C12_ResizeAffectsOnlyLaterSubmits ==
    [][/\ gen' # gen
           => /\ max_size' = semv'[gen']
              /\ UNCHANGED <<hstate, hsem, active_count, finalized, stopped>>
       /\ \A h \in Handles :
             (FirstSuspended(h) /\ finalized' # finalized) => hstate'[h] = "granted"]_vars

(* C38: in every reachable state a task whose status is completed has      *)
(* progress_completed = progress_total, also after result messages that    *)
(* arrive late or are delivered again.                                     *)
C38_CompletedMeansFullProgress ==
    \A t \in DOMAIN tasks :
        tasks[t].status = COMPLETED
            => tasks[t].progress_completed = tasks[t].progress_total

(* C40: the task queue holds no chunk of a task that is marked failed:     *)
(* when the dispatch of a task fails part-way, none of the chunks already  *)
(* published remains available to the nodes.                               *)
C40_NoChunkOfFailedTask ==
    \A k \in 1..Len(task_queue) : tasks[task_queue[k].task_id].status # FAILED

(* C37: each chunk of a task is published at most once: the task queue    *)
(* never receives two messages with the same task_id and chunk_id, also    *)
(* when schedule_pending_tasks runs concurrently with itself.              *)
C37_ChunkPublishedOnce ==
    \A j, k \in 1..Len(task_queue) :
        (/\ task_queue[j].task_id = task_queue[k].task_id
         /\ task_queue[j].chunk_id = task_queue[k].chunk_id) => j = k

(* C31: once the fingerprint cache holds an entry for a URL, every later   *)
(* identify for that URL returns that same list until clear_cache is       *)
(* invoked: no step other than clear_cache changes the entry, and a call   *)
(* that returns while the entry exists returns the entry.                  *)
C31_CachedFingerprintsStay ==
    [][LET _cache == fingerprint_engine._cache
           calls == fingerprint_engine.calls
           calls_after == fingerprint_engine'.calls
       IN /\ \A url \in DOMAIN _cache \cap DOMAIN fingerprint_engine'._cache :
                fingerprint_engine'._cache[url] = _cache[url]
          /\ \A k \in 1..Len(calls_after) :
                (/\ calls_after[k].pc = "returned"
                 /\ k <= Len(calls) => calls[k].pc = "fetching"
                 /\ calls_after[k].url \in DOMAIN _cache)
                    => calls_after[k].ret = _cache[calls_after[k].url]]_vars

C36_SessionFromOwnCredentials ==
    \A c \in GetSessionCalls :
        gs[c].auth_config # None
            => /\ gs[c].pc = "auth" => gs[c].creds = gs[c].auth_config
               /\ gs[c].pc = "returned" => gs[gs[c].result].creds = gs[c].auth_config

(* no submit call is in progress and no task is outstanding *)
Quiescent == \A h \in Handles : hstate[h] \in Done \cup {"unused"}

(* C33: the free slots of the semaphore in use plus active_count equal     *)
(* max_size whenever no task is outstanding, also after a resize whose     *)
(* earlier tasks have all finished, and the pool never has more free slots *)
(* than max_size, so that no more than max_size tasks can run together.    *)
C33_SlotsMatchMaxSize ==
    /\ semv[gen] <= max_size
    /\ Quiescent => semv[gen] + active_count = max_size

(* C34: no submit call is left waiting for ever while the tasks finish: a  *)
(* call suspended in acquire() waits on the semaphore that the running     *)
(* tasks release when they finish, also after a resize.                    *)
C34_WaitingSubmitIsServed ==
    \A h \in Handles : hstate[h] = "waiting" => hsem[h] = gen

(* C35: once stop has been called no task is launched, not even by a       *)
(* submit call that was waiting for a slot; and when stop has returned no  *)
(* task is outstanding and active_count = 0.                               *)
C35_NoLaunchAfterStop ==
    [][/\ stopped => \A h \in Handles : hstate'[h] = "created" => hstate[h] = "created"
       /\ (stop_pc' \in {"done", "done after cancel"})
             => (Unfinished' = {} /\ active_count' = 0)]_vars

(* the handlers of the messages the run loop has received that have not    *)
(* finished, the message whose submit call is waiting included             *)
InHand == {h \in Handles : hstate[h] \in {"waiting", "granted", "created", "running"}}

C13_SameKeySameSession ==
    [][\A c1, c2 \in GetSessionCalls :
          (/\ gs[c1].pc = "returned"
           /\ gs[c2].pc # "returned" /\ gs'[c2].pc = "returned"
           /\ ~gs[c1].force_new /\ ~gs'[c2].force_new
           /\ gs[c1].login_point = gs'[c2].login_point
           /\ gs[c1].base_url = gs'[c2].base_url
           /\ _sessions[cache_key(gs[c1].login_point, gs[c1].base_url)] = gs[c1].result)
              => /\ gs'[c2].result = gs[c1].result
                 /\ gs[c2].pc # "auth"
                 /\ gs'[c2].out = NoLogin]_vars

(* two calls for the same key have returned the same Session, which the    *)
(* first of them got by authenticating while the second waited for the lock *)
C13_Witness ==
    \E c1, c2 \in GetSessionCalls :
        /\ c1 # c2
        /\ gs[c1].pc = "returned" /\ gs[c2].pc = "returned"
        /\ ~gs[c1].force_new /\ ~gs[c2].force_new
        /\ gs[c1].login_point = gs[c2].login_point
        /\ gs[c1].base_url = gs[c2].base_url
        /\ gs[c1].out \in LoginOutcomes
        /\ gs[c2].result = gs[c1].result

(* two base URLs that differ at most in trailing "/" characters *)
SameBaseUrl(a, b) == rstrip(a, "/") = rstrip(b, "/")

(* C14: a get_session call that sent a login request always returns, and   *)
(* when the request got a status other than 200 or raised an exception, it *)
(* returns a new Session with the base URL of the call, no token and no    *)
(* cookies.                                                                *)
C14_AuthFailureGivesAnonymous ==
    [][\A c \in GetSessionCalls :
          (gs[c].pc = "auth" /\ gs'[c] # gs[c])
              => /\ gs'[c].pc = "returned"
                 /\ gs'[c].result = c /\ c \in Created'
                 /\ gs'[c].out \in {"401", "exception"}
                       => /\ SameBaseUrl(SessionBaseUrl(c)', gs[c].base_url)
                          /\ SessionToken(c)' = None
                          /\ SessionCookies(c)' = None]_vars

(* a call whose login request failed has returned an anonymous Session *)
C14_Witness ==
    \E c \in GetSessionCalls :
        /\ gs[c].pc = "returned"
        /\ gs[c].out \in {"401", "exception"}
        /\ gs[c].result \in Created
        /\ SessionToken(gs[c].result) = None

(* C15: when close_all returns, the cache is empty and no Session that     *)
(* get_session ever constructed holds an open client.                      *)
C15_CloseAllClosesEverySession ==
    [][(Idle /\ call'.op = "close_all")
          => /\ \A key \in CacheKeys : _sessions'[key] = 0
             /\ \A s \in Created : _client'[s] # "open"]_vars

(* ======================================================================= *)
(* Properties of target expansion (checked under ExpanderSpec)             *)
(* ======================================================================= *)

RECURSIVE Flatten(_)
Flatten(lists) == IF lists = <<>> THEN <<>> ELSE Head(lists) \o Flatten(Tail(lists))

(* C16: for every target list, the number _count_targets returns equals    *)
(* the number of addresses in all chunks split_targets returns.            *)
C16_CountEqualsExpansion ==
    (expander_ret.count # <<>> /\ expander_ret.chunks # <<>>)
        => expander_ret.count[1] = Len(Flatten(expander_ret.chunks[1]))

(* C17: the chunks split_targets returns, concatenated in order, are the   *)
(* expanded address sequence; every chunk has between 1 and chunk_size     *)
(* entries and every chunk but the last has exactly chunk_size.            *)
C17_ChunksPartitionExpansion ==
    expander_ret.chunks # <<>> =>
        LET chunks == expander_ret.chunks[1]
            chunk_size == expander_args.chunk_size
        IN /\ Flatten(chunks) = all_targets(expander_args.targets)
           /\ \A j \in 1..Len(chunks) :
                 /\ 1 <= Len(chunks[j]) /\ Len(chunks[j]) <= chunk_size
                 /\ j < Len(chunks) => Len(chunks[j]) = chunk_size

(* a block and a host name have been split into a full chunk and a shorter *)
(* last one                                                                *)
C17_Witness ==
    /\ expander_ret.chunks # <<>>
    /\ Len(expander_args.targets) = 2
    /\ Len(expander_ret.chunks[1]) = 2
    /\ Len(expander_ret.chunks[1][1]) = 2
    /\ Len(expander_ret.chunks[1][2]) = 1

(* ======================================================================= *)
(* Further properties of the scheduler (checked under Spec)                *)
(* ======================================================================= *)

(* C18: a task is created with progress_total = the count of its targets,  *)
(* and no later step decreases its progress_total.                         *)
C18_TotalNeverDecreases ==
    [][\A t \in TaskIds :
          /\ (~Found(t) /\ Found(t)') =>
                 \E targets \in TargetLists : tasks'[t].progress_total = _count_targets(targets)
          /\ Found(t) => tasks'[t].progress_total >= tasks[t].progress_total]_vars

(* ======================================================================= *)
(* Properties of dispatching (checked under DispatchSpec)                  *)
(* ======================================================================= *)

(* the chunk_ids of the messages published for task t, in queue order *)
PublishedChunkIds(t, queue) ==
    LET mine == SelectSeq(queue, LAMBDA m : m.task_id = t)
    IN [j \in 1..Len(mine) |-> mine[j].chunk_id]

(* C19: a message is published only by the dispatch in progress, for its   *)
(* task, with chunk_id = the number of chunks already published for it,    *)
(* the targets of that chunk and total_chunks = n; a task becomes running  *)
(* only when its published chunk_ids are exactly 0..n-1 in this order; a   *)
(* dispatch that ends with fewer than n chunks published does not leave    *)
(* the task running.                                                       *)
C19_PublishThenMarkRunning ==
    [][LET t == dispatcher.task_id
           chunks == IF t = 0 THEN <<>> ELSE split_targets(tasks[t].targets, DefaultChunkSize)
           n == Len(chunks)
           done == IF t = 0 THEN <<>> ELSE PublishedChunkIds(t, task_queue)
       IN /\ task_queue' # task_queue
               => /\ t # 0
                  /\ Len(done) < n
                  /\ task_queue' = Append(task_queue,
                                          [task_id |-> t,
                                           chunk_id |-> Len(done),
                                           targets |-> chunks[Len(done) + 1],
                                           total_chunks |-> n])
          /\ \A u \in TaskIds :
                (tasks[u].status # RUNNING /\ tasks'[u].status = RUNNING)
                    => /\ u = t
                       /\ task_queue' = task_queue
                       /\ done = [j \in 1..n |-> j - 1]
          /\ (t # 0 /\ dispatcher'.task_id # t /\ Len(done) < n)
                => tasks'[t].status # RUNNING]_vars

(* a task of two chunks is running with both chunks published, and the     *)
(* dispatch of another task has failed                                     *)
C19_Witness ==
    /\ \E t \in TaskIds : /\ tasks[t].status = RUNNING
                          /\ PublishedChunkIds(t, task_queue) = <<0, 1>>
    /\ \E t \in TaskIds : tasks[t].status = FAILED

(* the elements of a sequence *)
Range(seq) == {seq[j] : j \in 1..Len(seq)}

(* C20: when schedule_pending_tasks starts the dispatch of a task, none of *)
(* the listed tasks it has still to dispatch has a strictly higher         *)
(* priority, or the same priority and an earlier created_at.               *)
C20_PriorityThenAge ==
    [][(dispatcher.task_id = 0 /\ dispatcher'.task_id # 0)
          => LET t == dispatcher'.task_id
             IN \A u \in Range(dispatcher'.todo) :
                   /\ tasks[u].priority <= tasks[t].priority
                   /\ tasks[u].priority = tasks[t].priority
                         => created_at(t) < created_at(u)]_vars

(* C21: when schedule_pending_tasks returns, on a table where every task   *)
(* was pending and nothing else changes a status, no task is pending any   *)
(* more: each is running, or failed with an error_message.                 *)
C21_NoPendingLeftBehind ==
    [][(dispatcher.running /\ ~dispatcher'.running)
          => \A t \in DOMAIN tasks :
                \/ tasks'[t].status = RUNNING
                \/ tasks'[t].status = FAILED /\ tasks'[t].error_message # None]_vars

(* ======================================================================= *)
(* Properties of the result consumer (checked under ConsumerSpec)          *)
(* ======================================================================= *)

(* C22: the consumer acks a result message only when its result has been   *)
(* applied: on every step that acks the delivered message, _handle_result  *)
(* has left its try block normally, and a message whose application        *)
(* raised is not acked.                                                    *)
C22_AckOnlyAfterApplied ==
    [][(consumer.delivery = "unacked" /\ consumer'.delivery = "acked")
          => consumer.pc = "after try"]_vars


(* ======================================================================= *)
(* Properties of the scanner node (checked under NodeSpec)                 *)
(* ======================================================================= *)

(* C23: a chunk message whose type has a registered handler is acked only  *)
(* once the handler has been submitted to the pool as a task (so not while *)
(* submit waits for a free slot); a message whose type has no handler is   *)
(* acked with nothing submitted, and neither its delivery nor its ack      *)
(* changes the pool.                                                       *)
C23_AckAfterSubmit ==
    [][/\ (node.pc = "iterating" /\ node'.pc \in {"handled", "in submit"})
            => IF node'.type \in node._task_handlers
               THEN /\ node'.handle # 0
                    /\ hstate[node'.handle] = "unused"
                    /\ hstate'[node'.handle] \in {"created", "waiting"}
               ELSE node'.handle = 0 /\ UNCHANGED poolVars
       /\ (node.delivery = "unacked" /\ node'.delivery = "acked")
            => IF node.handle # 0
               THEN hstate[node.handle] \notin {"unused", "waiting", "granted"}
               ELSE UNCHANGED poolVars]_vars

(* C23 witness: a message with a registered handler is acked, its handler *)
(* is a task of the pool, more tasks have been submitted than the pool     *)
(* holds and the pool has no free slot                                     *)
C23_Witness ==
    /\ node.delivery = "acked"
    /\ node.type \in node._task_handlers
    /\ node.handle > max_size
    /\ hstate[node.handle] \in {"created", "running"}
    /\ semv[gen] = 0

(* C24: a chunk whose handler has not finished when its node is stopped is *)
(* redelivered: once stop has returned, a chunk that the broker has seen   *)
(* acked has a handler that ran to its end.                                *)
C24_UnfinishedChunkRedelivered ==
    (node.stopping = "returned" /\ node.delivery = "acked" /\ node.handle # 0)
        => hstate[node.handle] \in {"returned", "raised"}

(* C25: stop on a running node cancels the heartbeat before it stops the   *)
(* pool, stops the pool before it closes the connection and closes the     *)
(* connection before it writes the row offline; once stop has returned     *)
(* the node is not running, the row is offline and the heartbeat task is   *)
(* over, so that no heartbeat writes online after the offline write.       *)
C25_StopOrderAndResult ==
    /\ stopped => node.heartbeat = "done"
    /\ node._connection = "closed" => stop_pc \in {"done", "done after cancel"}
    /\ node.row = "offline" => node._connection # "open" /\ node.stopping = "returned"
    /\ node.stopping = "returned"
          => ~node._running /\ node.row = "offline" /\ node.heartbeat = "done"

(* C25 witness: stop has returned on a node that was connected, after a    *)
(* heartbeat write was cancelled and the pool had tasks to cancel          *)
C25_Witness ==
    /\ node.stopping = "returned"
    /\ node._connection = "closed"
    /\ stop_pc = "done after cancel"


(* ======================================================================= *)
(* Properties of the VulnDetector (checked under DetectorSpec, RateSpec    *)
(* and MatcherSpec)                                                        *)
(* ======================================================================= *)

(* the rows of the stat table for the case vuln_id of the call c *)
StatCount(c, vuln_id) ==
    Rows(<<c, vuln_id, "success">>) + Rows(<<c, vuln_id, "timeout">>)
        + Rows(<<c, vuln_id, "fail">>)

(* the status the outcome of verify is to be recorded with *)
ExpectedStatus(outcome) ==
    CASE outcome = "returned" -> "success"
      [] outcome = "timeout" -> "timeout"
      [] OTHER -> "fail"

(* the call c ends the case it is at *)
CaseEnds(c) == scans[c].pc = "record" /\ scans'[c].pc # "record"

(* C26: for every registered case id of case_ids, scan_target appends      *)
(* exactly one stat record for (case, target, task), with status success   *)
(* when verify returned, timeout when it timed out and fail when it        *)
(* raised: the step that ends a case adds one row with that status, and    *)
(* when the call returns every registered id of case_ids has one row.      *)
C26_OneStatPerCase ==
    [][\A c \in DOMAIN scans :
          /\ CaseEnds(c)
                => LET key == <<c, scans[c].case_ids[scans[c].i],
                                ExpectedStatus(scans[c].outcome)>>
                   IN stat_records' = (key :> Rows(key) + 1) @@ stat_records
          /\ (scans[c].pc # "returned" /\ scans'[c].pc = "returned")
                => \A id \in Elements(scans[c].case_ids) \cap _cases :
                      StatCount(c, id) = 1]_vars

(* C27: for every case scan_target executes, cleanup is attempted exactly  *)
(* once after verify, whatever verify's outcome, before the case ends.     *)
C27_CleanupOncePerCase ==
    [][\A c \in DOMAIN scans : CaseEnds(c) => scans[c].cleaned = 1]_vars

(* C28: a failing case does not leave scan_target: a verify that raises or *)
(* times out is followed by its stat record and the next case id, the      *)
(* index moves one case id at a time and passes a registered one only      *)
(* after its verify, and the call ends by returning, after the last id.    *)
C28_FailureStaysInside ==
    [][\A c \in DOMAIN scans :
          /\ scans'[c].pc # "raised"
          /\ (scans[c].pc = "verify" /\ scans'[c].pc # "verify")
                => /\ scans'[c].pc \in {"cleanup", "record"}
                   /\ scans'[c].i = scans[c].i
          /\ scans'[c].i # scans[c].i
                => /\ scans'[c].i = scans[c].i + 1
                   /\ scans'[c].pc = "loop"
                   /\ scans[c].case_ids[scans[c].i] \in _cases => scans[c].pc = "record"
          /\ (scans[c].pc # "returned" /\ scans'[c].pc = "returned")
                => scans[c].i > Len(scans[c].case_ids)]_vars

(* C28 witness: a call given two registered cases has returned after the   *)
(* verify of the first one failed or timed out and the second one          *)
(* succeeded                                                               *)
C28_Witness ==
    \E c \in DOMAIN scans :
        /\ scans[c].pc = "returned"
        /\ scans[c].case_ids = <<"a", "b">>
        /\ Rows(<<c, "a", "fail">>) + Rows(<<c, "a", "timeout">>) = 1
        /\ Rows(<<c, "b", "success">>) = 1

(* C29: the number of verify calls in progress in the process never        *)
(* exceeds scanner_rate_limit.                                             *)
C29_VerifyWithinRateLimit ==
    Cardinality({c \in DOMAIN scans : scans[c].pc = "verify"}) <= _default_rate_limit.limit

(* C30: with policy = specified, get_matching_cases returns the specified  *)
(* ids that are registered and nothing else, also for an empty or absent   *)
(* specified_ids.                                                          *)
C30_SpecifiedIsIntersection ==
    (matching.called /\ matching.policy = "specified")
        => Elements(matching.ret)
              = Elements(Get(matching.specified_ids, <<>>)) \cap _cases

====
